---- MODULE Spec2Model ----
(***************************************************************************)
(* A model of google-docs-parser: the paragraph cursor, the section        *)
(* matcher, the structured text parser, the three content strategies       *)
(* (text block, list, tree) and the document driver.                       *)
(*                                                                         *)
(* A JavaScript string is a sequence of one-character strings, so that     *)
(* trim, toLowerCase, split, indexOf and join are computed, not assumed.   *)
(* A JavaScript value of the output is a record tagged by `kind`:          *)
(*   [kind |-> "string", str   |-> s]                                      *)
(*   [kind |-> "array",  items |-> <<v1, ..., vn>>]                        *)
(*   [kind |-> "keyed",  key |-> s, value |-> <<s1, ..., sn>>]             *)
(*   [kind |-> "fields", rec |-> [k \in keys |-> s]]                       *)
(*   [kind |-> "node",   title |-> v, content |-> <<v1, ..., vn>>]         *)
(***************************************************************************)
EXTENDS Integers, Sequences, FiniteSets, TLC

VARIABLES
    paragraphList,  \* ParagraphCursor.paragraphList: the raw paragraphs
    parseSchema,    \* ParagraphCursor.parseSchema: the root schema
    index,          \* ParagraphCursor.index
    pc,             \* where the parse is: the loop whose next iteration runs
    result,         \* parseDocument's result mapping, as a sequence of
                    \* [name, value] entries in insertion order
    section,        \* the section whose content is being parsed
    sectionTitle,   \* currentSectionTitle of the driver iteration in progress
    textPartList,   \* parseTextBlockSection's textPartList
    listResult,     \* parseListSection's result
    frames,         \* the parseTreeNode activations, innermost first
    events,         \* history: the steps taken, each with the cursor position
                    \* and the number of open parseTreeNode activations
                    \* it started from
    lineText,       \* input of the structured text parser
    lineSchema,     \* its schema
    lineOut,        \* its result
    linePc,         \* "input" before the call, "parsed" after it
    run,            \* which call of parseDocument on these inputs this is
    firstRun,       \* what the first call did, once it is over
    apiOutcome,     \* what createDocsClient and docs.documents.get do in
                    \* the call of getParsedDocument
    callPc,         \* getParsedDocument: "called", "parsing", "settled"
    settled,        \* how the promise of getParsedDocument settled
    calls           \* history: the calls made on a cursor used on its own,
                    \* each with the position before, the position after
                    \* and what it returned

vars == <<paragraphList, parseSchema, index, pc, result, section, sectionTitle,
          textPartList, listResult, frames, events,
          lineText, lineSchema, lineOut, linePc, run, firstRun,
          apiOutcome, callPc, settled, calls>>

docVars == <<paragraphList, parseSchema, index, pc, result, section,
             sectionTitle, textPartList, listResult, frames, events>>

lineVars == <<lineText, lineSchema, lineOut, linePc>>

runVars == <<run, firstRun>>

clientVars == <<apiOutcome, callPc, settled>>

\* what a step of one parse leaves alone
otherVars == <<lineVars, runVars, clientVars, calls>>

-----------------------------------------------------------------------------
(* Bounds of the model.                                                    *)

\* the longest text given to the structured text parser
MaxLen == 5
\* the longest document of the section-matching inputs
MaxShort == 2
\* the longest document of the text-block inputs
MaxFlat == 4
\* the most paragraphs that follow the heading of a list section
MaxList == 3
\* the most paragraphs between the heading of the tree section and the
\* first root heading, in the inputs about the entry of a tree
MaxOrphan == 3
\* the most paragraphs that follow the first root heading of the tree
MaxBody == 4
\* the longest document of the dispatch inputs
MaxDispatch == 3

-----------------------------------------------------------------------------
(* JavaScript strings.                                                     *)

\* The value JavaScript calls undefined, for an absent style.
Undefined == "undefined"

\* String.prototype.trim strips these from both ends.
IsWhitespace(c) == c \in {" ", "\n", "\t"}

UpperChars == <<"A", "B", "C", "D", "E", "F", "G", "H", "I", "J", "K", "L", "M",
                "N", "O", "P", "Q", "R", "S", "T", "U", "V", "W", "X", "Y", "Z">>
LowerChars == <<"a", "b", "c", "d", "e", "f", "g", "h", "i", "j", "k", "l", "m",
                "n", "o", "p", "q", "r", "s", "t", "u", "v", "w", "x", "y", "z">>

LowerChar(c) ==
    IF \E i \in 1..Len(UpperChars) : UpperChars[i] = c
    THEN LowerChars[CHOOSE i \in 1..Len(UpperChars) : UpperChars[i] = c]
    ELSE c

\* String.prototype.toLowerCase
ToLowerCase(s) == [i \in 1..Len(s) |-> LowerChar(s[i])]

\* String.prototype.trim
Trim(s) ==
    LET keep == {i \in 1..Len(s) : ~IsWhitespace(s[i])}
    IN  IF keep = {} THEN <<>>
        ELSE LET lo == CHOOSE i \in keep : \A j \in keep : i <= j
                 hi == CHOOSE i \in keep : \A j \in keep : j <= i
             IN  SubSeq(s, lo, hi)

\* String.prototype.replace(/\n/g, " ")
ReplaceNewlines(s) == [i \in 1..Len(s) |-> IF s[i] = "\n" THEN " " ELSE s[i]]

\* d occurs in s at the 0-based position i
OccursAt(s, d, i) ==
    /\ i >= 0
    /\ i + Len(d) <= Len(s)
    /\ \A k \in 1..Len(d) : s[i + k] = d[k]

\* String.prototype.indexOf: the first 0-based position of d in s, or -1
IndexOf(s, d) ==
    LET hits == {i \in 0..Len(s) : OccursAt(s, d, i)}
    IN  IF hits = {} THEN -1
        ELSE CHOOSE i \in hits : \A j \in hits : i <= j

\* String.prototype.substring(from, to), 0-based, to exclusive
Substring(s, from, to) == SubSeq(s, from + 1, to)

\* String.prototype.split with a string separator: leftmost occurrences,
\* not overlapping; an empty separator splits into characters.
RECURSIVE SplitOn(_, _)
SplitOn(s, d) ==
    LET i == IndexOf(s, d)
    IN  IF i = -1 THEN <<s>>
        ELSE <<Substring(s, 0, i)>> \o SplitOn(Substring(s, i + Len(d), Len(s)), d)

Split(s, d) ==
    IF d = <<>> THEN [i \in 1..Len(s) |-> <<s[i]>>]
    ELSE SplitOn(s, d)

\* Array.prototype.join
\* Array.prototype.join called as join("")
RECURSIVE JoinWithoutSeparator(_, _)
JoinWithoutSeparator(parts, sep) ==
    IF parts = <<>> THEN <<>>
    ELSE Head(parts) \o JoinWithoutSeparator(Tail(parts), sep)

RECURSIVE Join(_, _)
Join(parts, sep) ==
    IF parts = <<>> THEN <<>>
    ELSE IF Len(parts) = 1 THEN parts[1]
    ELSE parts[1] \o sep \o Join(Tail(parts), sep)

\* Array.prototype.filter on a sequence
RECURSIVE FilterNonEmpty(_)
FilterNonEmpty(items) ==
    IF items = <<>> THEN <<>>
    ELSE IF Len(items[1]) > 0 THEN <<items[1]>> \o FilterNonEmpty(Tail(items))
    ELSE FilterNonEmpty(Tail(items))

MapTrim(items) == [i \in 1..Len(items) |-> Trim(items[i])]

-----------------------------------------------------------------------------
(* Output values.                                                          *)

Str(s) == [kind |-> "string", str |-> s]
Arr(vs) == [kind |-> "array", items |-> vs]
StrArr(ss) == Arr([i \in 1..Len(ss) |-> Str(ss[i])])
Keyed(k, v) == [kind |-> "keyed", key |-> k, value |-> v]
Fields(r) == [kind |-> "fields", rec |-> r]
TreeNode(t, c) == [kind |-> "node", title |-> t, content |-> c]

-----------------------------------------------------------------------------
(* The structured text parser (utils.ts).  A Schema is a record            *)
(* [delimiter, keys, keyDelimiter, isFlatten]; an absent delimiter or      *)
(* keyDelimiter is the empty string and absent keys the empty list, which  *)
(* the code's truthiness tests do not tell from absence.                   *)

DefaultDelimiter == <<",">>

splitAndTrim(text, delimiter, filterEmpty) ==
    IF text = <<>> THEN <<>>
    ELSE LET items == MapTrim(Split(text, delimiter))
         IN  IF filterEmpty THEN FilterNonEmpty(items) ELSE items

parseToKeyedList(text, keyDelimiter, listDelimiter) ==
    LET delimiterIndex == IndexOf(text, keyDelimiter)
    IN  IF delimiterIndex <= 0 THEN Str(text)
        ELSE LET key == Trim(Substring(text, 0, delimiterIndex))
                 valuePart == Trim(Substring(text, delimiterIndex + Len(keyDelimiter),
                                             Len(text)))
                 value == IF valuePart # <<>>
                          THEN splitAndTrim(valuePart, listDelimiter, TRUE)
                          ELSE <<>>
             IN  Keyed(key, value)

\* parseToFields with the empty tokens dropped before the keys are paired
parseToFieldsDroppingEmpty(text, keys, delimiter) ==
    LET values == splitAndTrim(text, delimiter, TRUE)
        keySet == {keys[i] : i \in 1..Len(keys)}
        last(k) == CHOOSE i \in 1..Len(keys) :
                       /\ keys[i] = k
                       /\ \A j \in 1..Len(keys) : keys[j] = k => j <= i
        at(i) == IF i <= Len(values) THEN values[i] ELSE <<>>
    IN  Fields([k \in keySet |-> at(last(k))])

\* keys.reduce: a later occurrence of a key overwrites an earlier one
parseToFields(text, keys, delimiter) ==
    LET values == splitAndTrim(text, delimiter, FALSE)
        keySet == {keys[i] : i \in 1..Len(keys)}
        last(k) == CHOOSE i \in 1..Len(keys) :
                       /\ keys[i] = k
                       /\ \A j \in 1..Len(keys) : keys[j] = k => j <= i
        at(i) == IF i <= Len(values) /\ values[i] # <<>> THEN values[i] ELSE <<>>
    IN  Fields([k \in keySet |-> at(last(k))])

\* parseDelimitedList without the filter of the empty tokens
parseDelimitedListKeepingEmpty(text, delimiter) ==
    StrArr(MapTrim(Split(text, delimiter)))

parseDelimitedList(text, delimiter) ==
    StrArr(FilterNonEmpty(MapTrim(Split(text, delimiter))))

parseStructuredTextKeysFirst(text, schema) ==
    LET delimiter == IF schema.delimiter # <<>> THEN schema.delimiter
                     ELSE DefaultDelimiter
    IN  IF Len(schema.keys) > 0
        THEN parseToFields(text, schema.keys, delimiter)
        ELSE IF schema.keyDelimiter # <<>>
        THEN parseToKeyedList(text, schema.keyDelimiter, delimiter)
        ELSE parseDelimitedList(text, delimiter)

parseStructuredText(text, schema) ==
    LET delimiter == IF schema.delimiter # <<>> THEN schema.delimiter
                     ELSE DefaultDelimiter
    IN  IF schema.keyDelimiter # <<>>
        THEN parseToKeyedList(text, schema.keyDelimiter, delimiter)
        ELSE IF Len(schema.keys) > 0
        THEN parseToFields(text, schema.keys, delimiter)
        ELSE parseDelimitedList(text, delimiter)

-----------------------------------------------------------------------------
(* Paragraphs (utils.ts, cursor.ts).  A raw paragraph is a record          *)
(* [elements, hasStyle, namedStyleType]: the contents of its text runs,    *)
(* whether it has a paragraphStyle object, and that object's               *)
(* namedStyleType (Undefined when missing).                                *)

VALID_NAMED_STYLES_SET ==
    {"HEADING_1", "HEADING_2", "HEADING_3", "HEADING_4", "HEADING_5",
     "HEADING_6", "TITLE", "SUBTITLE"}

extractParagraphText(paragraph) ==
    ReplaceNewlines(Trim(Join(paragraph.elements, <<>>)))

\* paragraph.paragraphStyle?.namedStyleType
RawNamedStyleType(paragraph) ==
    IF paragraph.hasStyle THEN paragraph.namedStyleType ELSE Undefined

hasNamedStyle(paragraph, namedStyleType) ==
    IF namedStyleType = Undefined THEN FALSE
    ELSE RawNamedStyleType(paragraph) = namedStyleType

getParagraphNamedStyleType(paragraph) ==
    IF ~paragraph.hasStyle /\ Len(paragraph.elements) = 0 THEN Undefined
    ELSE IF ~paragraph.hasStyle THEN "NORMAL_TEXT"
    ELSE IF paragraph.namedStyleType = Undefined THEN "NORMAL_TEXT"
    ELSE IF paragraph.namedStyleType \in VALID_NAMED_STYLES_SET
    THEN paragraph.namedStyleType
    ELSE Undefined

isNamedStyleType(style) ==
    /\ style # Undefined
    /\ style # "NORMAL_TEXT"
    /\ style \in VALID_NAMED_STYLES_SET

\* getParagraph's null
NullParagraph == [isNull |-> TRUE, text |-> <<>>, style |-> Undefined]

\* getParagraph without the test of the text
getParagraphKeepingEmpty(paragraph) ==
    [isNull |-> FALSE, text |-> extractParagraphText(paragraph),
     style |-> getParagraphNamedStyleType(paragraph)]

getParagraph(paragraph) ==
    LET text == extractParagraphText(paragraph)
    IN  IF text = <<>> THEN NullParagraph
        ELSE [isNull |-> FALSE, text |-> text,
              style |-> getParagraphNamedStyleType(paragraph)]

-----------------------------------------------------------------------------
(* The section matcher (section.ts).  A title is a record                  *)
(* [name, namedStyleType, delimiter, keys, keyDelimiter]; an absent name   *)
(* is the empty string.  getSectionTitle returns a name that passed the    *)
(* test `name && namedStyleType`, never the empty string, so the empty     *)
(* string stands for its null.                                             *)

NoTitle == <<>>

\* a matcher that forgets to compare the text
SectionMatchesStyleOnly(sec, paragraph, normalized) ==
    /\ sec.title.name # <<>>
    /\ sec.title.namedStyleType # Undefined
    /\ hasNamedStyle(paragraph, sec.title.namedStyleType)

SectionMatches(sec, paragraph, normalized) ==
    /\ sec.title.name # <<>>
    /\ sec.title.namedStyleType # Undefined
    /\ hasNamedStyle(paragraph, sec.title.namedStyleType)
    /\ normalized = ToLowerCase(Trim(sec.title.name))

getSectionTitle(paragraph, text, schema) ==
    LET normalized == ToLowerCase(Trim(text))
        sectionList == schema.sections
        hits == {i \in 1..Len(sectionList) :
                    SectionMatches(sectionList[i], paragraph, normalized)}
    IN  IF hits = {} THEN NoTitle
        ELSE sectionList[CHOOSE i \in hits : \A j \in hits : i <= j].title.name

-----------------------------------------------------------------------------
(* The paragraph cursor (cursor.ts), as operators of paragraphList,        *)
(* parseSchema and a position i.                                           *)

isEndOfDocument(i) == i >= Len(paragraphList)

getCurrentParagraph(i) ==
    IF isEndOfDocument(i) THEN NullParagraph
    ELSE getParagraph(paragraphList[i + 1])

\* getNextParagraph without the test of the end
getNextParagraphUnguarded(i) == i + 1

\* the position getNextParagraph leaves the cursor at
getNextParagraph(i) == IF isEndOfDocument(i) THEN i ELSE i + 1

getCurrentSectionTitle(i) ==
    LET info == getCurrentParagraph(i)
    IN  IF info.isNull THEN NoTitle
        ELSE getSectionTitle(paragraphList[i + 1], info.text, parseSchema)

\* the section test that sees no section title while a tree level is open
isAtNewSectionOutsideTree(i) ==
    getCurrentSectionTitle(i) # NoTitle /\ frames = <<>>

isAtNewSection(i) == getCurrentSectionTitle(i) # NoTitle

isAtParagraphHeading(i) ==
    LET info == getCurrentParagraph(i)
    IN  ~info.isNull /\ isNamedStyleType(info.style)

-----------------------------------------------------------------------------
(* Schemas (types.ts).  A content descriptor is a record                   *)
(* [kind, delimiter, keys, keyDelimiter, isFlatten, hasNode, node]; kind   *)
(* "absent" stands for a section or node without content.  A node and a    *)
(* section are records [title, content].                                   *)

MkTitle(name, namedStyleType, delimiter, keys, keyDelimiter) ==
    [name |-> name, namedStyleType |-> namedStyleType, delimiter |-> delimiter,
     keys |-> keys, keyDelimiter |-> keyDelimiter]

PlainTitle(name, namedStyleType) ==
    MkTitle(name, namedStyleType, <<>>, <<>>, <<>>)

MkContent(kind, delimiter, keys, keyDelimiter, isFlatten, hasNode, node) ==
    [kind |-> kind, delimiter |-> delimiter, keys |-> keys,
     keyDelimiter |-> keyDelimiter, isFlatten |-> isFlatten,
     hasNode |-> hasNode, node |-> node]

NoContent == MkContent("absent", <<>>, <<>>, <<>>, FALSE, FALSE, <<>>)

ListContent(delimiter, keys, keyDelimiter, isFlatten) ==
    MkContent("list", delimiter, keys, keyDelimiter, isFlatten, FALSE, <<>>)

TreeContent(node) == MkContent("tree", <<>>, <<>>, <<>>, FALSE, TRUE, node)

MkNode(title, content) == [title |-> title, content |-> content]

-----------------------------------------------------------------------------
(* The tree strategy's helpers (tree.ts).                                  *)

RECURSIVE collectNodeStylesRecursive(_)
collectNodeStylesRecursive(node) ==
    (IF node.title.namedStyleType # Undefined
     THEN {node.title.namedStyleType} ELSE {})
    \cup
    (IF node.content.kind = "tree"
     THEN collectNodeStylesRecursive(node.content.node) ELSE {})

\* collectNodeStylesRecursive called on the node of content throws a
\* TypeError: it reads the title of a node that is not there
RECURSIVE collectNodeStylesRaises(_)
collectNodeStylesRaises(content) ==
    IF ~content.hasNode THEN TRUE
    ELSE IF content.node.content.kind = "tree"
    THEN collectNodeStylesRaises(content.node.content)
    ELSE FALSE

\* the node whose title is parsed whatever the title schema declares
createNodeFromTitleAlwaysParsing(text, titleSchema) ==
    LET structuredText == parseStructuredText(text, titleSchema)
    IN  IF structuredText.kind \in {"array", "keyed", "fields"}
        THEN TreeNode(structuredText, <<>>)
        ELSE TreeNode(Str(text), <<>>)

createNodeFromTitle(text, titleSchema) ==
    LET hasDelimiterSchema ==
            \/ titleSchema.keyDelimiter # <<>>
            \/ Len(titleSchema.keys) > 0
            \/ titleSchema.delimiter # <<>>
    IN  IF hasDelimiterSchema
        THEN LET structuredText == parseStructuredText(text, titleSchema)
             IN  IF structuredText.kind = "array"
                 THEN TreeNode(structuredText, <<>>)
                 ELSE IF structuredText.kind \in {"keyed", "fields"}
                 THEN TreeNode(structuredText, <<>>)
                 ELSE TreeNode(Str(text), <<>>)
        ELSE TreeNode(Str(text), <<>>)

\* nodeSchema.content?.kind === "tree" ? nodeSchema.content.node : undefined
HasChildNode(nodeSchema) ==
    nodeSchema.content.kind = "tree" /\ nodeSchema.content.hasNode

\* determineTreeParsingAction with a heading of an enclosing level taken for a
\* title of the current level
determineTreeParsingActionAncestorAsTitle(paragraph, i, nodeSchema, ancestorNodeList) ==
    LET nodeTitleStyle == nodeSchema.title.namedStyleType
        isCurrentNodeTitle ==
            \/ hasNamedStyle(paragraph, nodeTitleStyle)
            \/ \E a \in 1..Len(ancestorNodeList) :
                  hasNamedStyle(paragraph, ancestorNodeList[a].title.namedStyleType)
        isChildNodeTitle ==
            /\ HasChildNode(nodeSchema)
            /\ hasNamedStyle(paragraph, nodeSchema.content.node.title.namedStyleType)
        isHeading == isAtParagraphHeading(i)
    IN  IF isAtNewSection(i) THEN "exitSection"
        ELSE IF isCurrentNodeTitle THEN "createNode"
        ELSE IF isChildNodeTitle THEN "startChildNode"
        ELSE IF isHeading THEN "exitSection"
        ELSE "appendDetail"

\* the decision without its last exit: a heading that is no title of the
\* level, of its child or of an ancestor is taken as a line of detail
determineTreeParsingActionWithoutOutsideRule(paragraph, i, nodeSchema, ancestorNodeList) ==
    LET nodeTitleStyle == nodeSchema.title.namedStyleType
        isCurrentNodeTitle == hasNamedStyle(paragraph, nodeTitleStyle)
        isChildNodeTitle ==
            /\ HasChildNode(nodeSchema)
            /\ hasNamedStyle(paragraph, nodeSchema.content.node.title.namedStyleType)
        isAncestorNodeTitle ==
            \E a \in 1..Len(ancestorNodeList) :
                hasNamedStyle(paragraph, ancestorNodeList[a].title.namedStyleType)
        isHeading == isAtParagraphHeading(i)
        atNewSection == isAtNewSection(i)
        isHigherLevelHeading == isHeading /\ isAncestorNodeTitle
        isSameLevelHeading == isHeading /\ isCurrentNodeTitle
    IN  IF atNewSection THEN "exitSection"
        ELSE IF isCurrentNodeTitle THEN "createNode"
        ELSE IF isChildNodeTitle THEN "startChildNode"
        ELSE IF isHigherLevelHeading \/ isSameLevelHeading THEN "finishCurrentNode"
        ELSE "appendDetail"

determineTreeParsingAction(paragraph, i, nodeSchema, ancestorNodeList) ==
    LET nodeTitleStyle == nodeSchema.title.namedStyleType
        isCurrentNodeTitle == hasNamedStyle(paragraph, nodeTitleStyle)
        isChildNodeTitle ==
            /\ HasChildNode(nodeSchema)
            /\ hasNamedStyle(paragraph, nodeSchema.content.node.title.namedStyleType)
        isAncestorNodeTitle ==
            \E a \in 1..Len(ancestorNodeList) :
                hasNamedStyle(paragraph, ancestorNodeList[a].title.namedStyleType)
        isInThisTree == isCurrentNodeTitle \/ isChildNodeTitle \/ isAncestorNodeTitle
        isHeading == isAtParagraphHeading(i)
        atNewSection == isAtNewSection(i)
        isHeadingOutsideThisTree == isHeading /\ ~isInThisTree
        isHigherLevelHeading == isHeading /\ isAncestorNodeTitle
        isSameLevelHeading == isHeading /\ isCurrentNodeTitle
    IN  IF atNewSection THEN "exitSection"
        ELSE IF isCurrentNodeTitle THEN "createNode"
        ELSE IF isChildNodeTitle THEN "startChildNode"
        ELSE IF isHigherLevelHeading \/ isSameLevelHeading THEN "finishCurrentNode"
        ELSE IF isHeadingOutsideThisTree THEN "exitSection"
        ELSE "appendDetail"

-----------------------------------------------------------------------------
(* The parse as a state machine.  pc names the loop whose next iteration   *)
(* runs: "driver" (parseDocument), "textBlock", "list", "treeSection",     *)
(* "treeNode" (the innermost parseTreeNode activation), "done", or         *)
(* "error" when a TypeError has left parseDocument.                        *)

NoSection == [title |-> PlainTitle(<<>>, Undefined), content |-> NoContent]

\* the assignment that leaves a key that is already there as it is
PutKeepingFirst(map, name, value) ==
    IF \E i \in 1..Len(map) : map[i].name = name
    THEN map
    ELSE Append(map, [name |-> name, value |-> value])

\* result[name] = value on a JavaScript object: a new key goes last, an
\* existing key keeps its place
Put(map, name, value) ==
    IF \E i \in 1..Len(map) : map[i].name = name
    THEN [i \in 1..Len(map) |->
            IF map[i].name = name THEN [name |-> name, value |-> value] ELSE map[i]]
    ELSE Append(map, [name |-> name, value |-> value])

Event(act) == [pos |-> index, act |-> act, depth |-> Len(frames)]

Log(act) == events' = Append(events, Event(act))

\* parseSchema.sections.find((s) => s.title.name === name): its position, 0 if none
FindSection(name) ==
    LET hits == {i \in 1..Len(parseSchema.sections) :
                    parseSchema.sections[i].title.name = name}
    IN  IF hits = {} THEN 0 ELSE CHOOSE i \in hits : \A j \in hits : i <= j

\* the style test that ends a tree at a heading outside it
IsOutsideTreeHeading(i, allNodeTitleStyles) ==
    LET info == getCurrentParagraph(i)
    IN  /\ isAtParagraphHeading(i)
        /\ info.style # Undefined
        /\ info.style \notin allNodeTitleStyles

AllNodeTitleStyles == collectNodeStylesRecursive(section.content.node)

(* parseDocument: the loop ends *)
DriverReturn ==
    /\ pc = "driver"
    /\ isEndOfDocument(index)
    /\ pc' = "done"
    /\ Log("DriverReturn")
    /\ UNCHANGED <<paragraphList, parseSchema, index, result, section,
                   sectionTitle, textPartList, listResult, frames, otherVars>>

(* parseDocument: the paragraph starts no section *)
\* the driver that stores the paragraph it skips over the value stored last
DriverAdvanceStoringSkipped ==
    /\ pc = "driver"
    /\ ~isEndOfDocument(index)
    /\ LET currentSectionTitle == getCurrentSectionTitle(index)
       IN  currentSectionTitle = NoTitle \/ FindSection(currentSectionTitle) = 0
    /\ index' = getNextParagraph(index)
    /\ result' = IF result = <<>> \/ getCurrentParagraph(index).isNull
                 THEN result
                 ELSE Put(result, result[Len(result)].name,
                          Str(getCurrentParagraph(index).text))
    /\ Log("DriverAdvance")
    /\ UNCHANGED <<paragraphList, parseSchema, pc, section,
                   sectionTitle, textPartList, listResult, frames, otherVars>>

DriverAdvance ==
    /\ pc = "driver"
    /\ ~isEndOfDocument(index)
    /\ LET currentSectionTitle == getCurrentSectionTitle(index)
       IN  currentSectionTitle = NoTitle \/ FindSection(currentSectionTitle) = 0
    /\ index' = getNextParagraph(index)
    /\ Log("DriverAdvance")
    /\ UNCHANGED <<paragraphList, parseSchema, pc, result, section,
                   sectionTitle, textPartList, listResult, frames, otherVars>>

\* parseSectionContent without the guard of a tree that has no node
DispatchTargetWithoutNodeGuard(content) ==
    CASE content.kind = "absent" -> "textBlock"
      [] content.kind = "tree" -> "treeSection"
      [] content.kind = "list" -> "list"
      [] OTHER -> "textBlock"

\* the branch parseSectionContent takes: a strategy, or "empty" for the
\* immediate return of []
DispatchTarget(content) ==
    CASE content.kind = "absent" -> "textBlock"
      [] content.kind = "tree" -> IF content.hasNode THEN "treeSection" ELSE "empty"
      [] content.kind = "list" -> "list"
      [] OTHER -> "textBlock"

(* parseDocument: the paragraph starts a section; parseSectionContent
   dispatches on the section's content *)
DriverEnterSection ==
    /\ pc = "driver"
    /\ ~isEndOfDocument(index)
    /\ LET currentSectionTitle == getCurrentSectionTitle(index)
           found == FindSection(currentSectionTitle)
       IN  /\ currentSectionTitle # NoTitle
           /\ found # 0
           /\ LET sec == parseSchema.sections[found]
                  content == sec.content
              IN  /\ index' = getNextParagraph(index)
                  /\ textPartList' = <<>>
                  /\ listResult' = <<>>
                  /\ frames' = <<>>
                  /\ IF DispatchTarget(content) = "empty"
                     THEN /\ result' = Put(result, currentSectionTitle, Arr(<<>>))
                          /\ pc' = "driver"
                          /\ section' = NoSection
                          /\ sectionTitle' = NoTitle
                     ELSE IF /\ DispatchTarget(content) = "treeSection"
                             /\ collectNodeStylesRaises(content)
                     THEN /\ result' = result
                          /\ pc' = "error"
                          /\ section' = NoSection
                          /\ sectionTitle' = NoTitle
                     ELSE /\ result' = result
                          /\ section' = sec
                          /\ sectionTitle' = currentSectionTitle
                          /\ pc' = DispatchTarget(content)
    /\ Log("DriverEnterSection")
    /\ UNCHANGED <<paragraphList, parseSchema, otherVars>>

\* a strategy returns value to the driver, which stores it
ReturnToDriver(value) ==
    /\ result' = Put(result, sectionTitle, value)
    /\ pc' = "driver"
    /\ section' = NoSection
    /\ sectionTitle' = NoTitle
    /\ textPartList' = <<>>
    /\ listResult' = <<>>
    /\ frames' = <<>>

(* parseTextBlockSection *)
TextBlockSkipEmpty ==
    /\ pc = "textBlock"
    /\ ~isEndOfDocument(index)
    /\ getCurrentParagraph(index).isNull
    /\ index' = getNextParagraph(index)
    /\ Log("TextBlockSkipEmpty")
    /\ UNCHANGED <<paragraphList, parseSchema, pc, result, section,
                   sectionTitle, textPartList, listResult, frames, otherVars>>

TextBlockStopsAtSectionsOnly(i) == isAtNewSection(i)

TextBlockStopsAtHeadingsOnly(i) == isAtParagraphHeading(i)

TextBlockStops(i) == isAtNewSection(i) \/ isAtParagraphHeading(i)

TextBlockAppend ==
    /\ pc = "textBlock"
    /\ ~isEndOfDocument(index)
    /\ ~getCurrentParagraph(index).isNull
    /\ ~TextBlockStops(index)
    /\ textPartList' = Append(textPartList, getCurrentParagraph(index).text)
    /\ index' = getNextParagraph(index)
    /\ Log("TextBlockAppend")
    /\ UNCHANGED <<paragraphList, parseSchema, pc, result, section,
                   sectionTitle, listResult, frames, otherVars>>

TextBlockReturn ==
    /\ pc = "textBlock"
    /\ \/ isEndOfDocument(index)
       \/ ~getCurrentParagraph(index).isNull /\ TextBlockStops(index)
    /\ ReturnToDriver(Str(Join(textPartList, <<" ">>)))
    /\ Log("TextBlockReturn")
    /\ UNCHANGED <<paragraphList, parseSchema, index, otherVars>>

(* parseListSection *)
ListSkipEmpty ==
    /\ pc = "list"
    /\ ~isEndOfDocument(index)
    /\ getCurrentParagraph(index).isNull
    /\ index' = getNextParagraph(index)
    /\ Log("ListSkipEmpty")
    /\ UNCHANGED <<paragraphList, parseSchema, pc, result, section,
                   sectionTitle, textPartList, listResult, frames, otherVars>>

\* the list that goes on through headings that start no section
ListStopsAtSectionsOnly(i) == isAtNewSection(i)

ListStops(i) == isAtNewSection(i) \/ isAtParagraphHeading(i)

\* the flattening without the test of isFlatten
ListPushWithoutFlattenTest(parsed, contentSchema) ==
    IF parsed.kind = "array" THEN parsed.items ELSE <<parsed>>

\* the items one parsed line adds to the list
ListPush(parsed, contentSchema) ==
    IF contentSchema.isFlatten /\ parsed.kind = "array"
    THEN parsed.items
    ELSE <<parsed>>

ListAppend ==
    /\ pc = "list"
    /\ ~isEndOfDocument(index)
    /\ ~getCurrentParagraph(index).isNull
    /\ ~ListStops(index)
    /\ LET contentSchema == section.content
           parsed == parseStructuredText(getCurrentParagraph(index).text,
                                         contentSchema)
       IN  listResult' = listResult \o ListPush(parsed, contentSchema)
    /\ index' = getNextParagraph(index)
    /\ Log("ListAppend")
    /\ UNCHANGED <<paragraphList, parseSchema, pc, result, section,
                   sectionTitle, textPartList, frames, otherVars>>

ListReturn ==
    /\ pc = "list"
    /\ \/ isEndOfDocument(index)
       \/ ~getCurrentParagraph(index).isNull /\ ListStops(index)
    /\ ReturnToDriver(Arr(listResult))
    /\ Log("ListReturn")
    /\ UNCHANGED <<paragraphList, parseSchema, index, otherVars>>

-----------------------------------------------------------------------------
(* parseTreeSection: the scan for the first root heading *)

RootNode == section.content.node

TreeSectionSkipEmpty ==
    /\ pc = "treeSection"
    /\ ~isEndOfDocument(index)
    /\ getCurrentParagraph(index).isNull
    /\ index' = getNextParagraph(index)
    /\ Log("TreeSectionSkipEmpty")
    /\ UNCHANGED <<paragraphList, parseSchema, pc, result, section,
                   sectionTitle, textPartList, listResult, frames, otherVars>>

TreeSectionStopsAtAnyHeading(i) ==
    isAtNewSection(i) \/ isAtParagraphHeading(i)

TreeSectionStops(i) ==
    isAtNewSection(i) \/ IsOutsideTreeHeading(i, AllNodeTitleStyles)

\* the test that takes a paragraph in the title style of any level of the
\* tree for a title of the first
TreeSectionIsRootAtAnyLevel(i) ==
    \E style \in AllNodeTitleStyles : hasNamedStyle(paragraphList[i + 1], style)

TreeSectionIsRoot(i) ==
    hasNamedStyle(paragraphList[i + 1], RootNode.title.namedStyleType)

TreeSectionSkipOrphan ==
    /\ pc = "treeSection"
    /\ ~isEndOfDocument(index)
    /\ ~getCurrentParagraph(index).isNull
    /\ ~TreeSectionStops(index)
    /\ ~TreeSectionIsRoot(index)
    /\ index' = getNextParagraph(index)
    /\ Log("TreeSectionSkipOrphan")
    /\ UNCHANGED <<paragraphList, parseSchema, pc, result, section,
                   sectionTitle, textPartList, listResult, frames, otherVars>>

TreeSectionReturnEmpty ==
    /\ pc = "treeSection"
    /\ \/ isEndOfDocument(index)
       \/ ~getCurrentParagraph(index).isNull /\ TreeSectionStops(index)
    /\ ReturnToDriver(Arr(<<>>))
    /\ Log("TreeSectionReturnEmpty")
    /\ UNCHANGED <<paragraphList, parseSchema, index, otherVars>>

\* a parseTreeNode activation at its start
NewFrame(nodeSchema, ancestorNodeList) ==
    [nodeSchema |-> nodeSchema, ancestorNodeList |-> ancestorNodeList,
     result |-> <<>>, currentNode |-> 0]

TreeSectionEnter ==
    /\ pc = "treeSection"
    /\ ~isEndOfDocument(index)
    /\ ~getCurrentParagraph(index).isNull
    /\ ~TreeSectionStops(index)
    /\ TreeSectionIsRoot(index)
    /\ frames' = <<NewFrame(RootNode, <<>>)>>
    /\ pc' = "treeNode"
    /\ Log("TreeSectionEnter")
    /\ UNCHANGED <<paragraphList, parseSchema, index, result, section,
                   sectionTitle, textPartList, listResult, otherVars>>

-----------------------------------------------------------------------------
(* parseTreeNode: one iteration of the innermost activation.  currentNode  *)
(* is the position in result of the node the code's currentNode refers     *)
(* to, 0 for null.                                                         *)

Top == frames[1]

TreeDecision ==
    determineTreeParsingAction(paragraphList[index + 1], index,
                               Top.nodeSchema, Top.ancestorNodeList)

\* the paragraph is there and passes the two tests before the decision
TreeDecides ==
    /\ ~isEndOfDocument(index)
    /\ ~getCurrentParagraph(index).isNull
    /\ ~isAtNewSection(index)
    /\ ~IsOutsideTreeHeading(index, AllNodeTitleStyles)

\* push(items) for push(...items): the items go in as one array
PushContentAsOneItem(frame, items) ==
    [frame EXCEPT !.result[frame.currentNode].content = Append(@, Arr(items))]

\* currentNode[CONTENT_KEY].push(...items) on the frame's current node
PushContent(frame, items) ==
    [frame EXCEPT !.result[frame.currentNode].content = @ \o items]

TreeNodeSkipEmpty ==
    /\ pc = "treeNode"
    /\ ~isEndOfDocument(index)
    /\ getCurrentParagraph(index).isNull
    /\ index' = getNextParagraph(index)
    /\ Log("TreeNodeSkipEmpty")
    /\ UNCHANGED <<paragraphList, parseSchema, pc, result, section,
                   sectionTitle, textPartList, listResult, frames, otherVars>>

TreeNodeReturns ==
    \/ isEndOfDocument(index)
    \/ /\ ~getCurrentParagraph(index).isNull
       /\ \/ isAtNewSection(index)
          \/ IsOutsideTreeHeading(index, AllNodeTitleStyles)
          \/ TreeDecision = "exitSection"
          \/ TreeDecision = "finishCurrentNode" /\ Top.currentNode # 0

\* the activation returns its nodes: to the activation that called it, which
\* pushes them into its current node, or to parseTreeSection and the driver
TreeNodeReturn ==
    /\ pc = "treeNode"
    /\ TreeNodeReturns
    /\ IF Len(frames) = 1
       THEN ReturnToDriver(Arr(Top.result))
       ELSE /\ frames' = <<PushContent(frames[2], Top.result)>> \o Tail(Tail(frames))
            /\ UNCHANGED <<result, pc, section, sectionTitle, textPartList,
                           listResult>>
    /\ Log("TreeNodeReturn")
    /\ UNCHANGED <<paragraphList, parseSchema, index, otherVars>>

\* createNode without the call of getNextParagraph
TreeNodeCreateWithoutAdvance ==
    /\ pc = "treeNode"
    /\ TreeDecides
    /\ TreeDecision = "createNode"
    /\ LET node == createNodeFromTitle(getCurrentParagraph(index).text,
                                       Top.nodeSchema.title)
           pushed == Append(Top.result, node)
       IN  frames' = [frames EXCEPT ![1].result = pushed,
                                    ![1].currentNode = Len(pushed)]
    /\ index' = index
    /\ Log("TreeNodeCreate")
    /\ UNCHANGED <<paragraphList, parseSchema, pc, result, section,
                   sectionTitle, textPartList, listResult, otherVars>>

TreeNodeCreate ==
    /\ pc = "treeNode"
    /\ TreeDecides
    /\ TreeDecision = "createNode"
    /\ LET node == createNodeFromTitle(getCurrentParagraph(index).text,
                                       Top.nodeSchema.title)
           pushed == Append(Top.result, node)
       IN  frames' = [frames EXCEPT ![1].result = pushed,
                                    ![1].currentNode = Len(pushed)]
    /\ index' = getNextParagraph(index)
    /\ Log("TreeNodeCreate")
    /\ UNCHANGED <<paragraphList, parseSchema, pc, result, section,
                   sectionTitle, textPartList, listResult, otherVars>>

TreeNodeStartChild ==
    /\ pc = "treeNode"
    /\ TreeDecides
    /\ TreeDecision = "startChildNode"
    /\ IF Top.currentNode = 0 \/ ~HasChildNode(Top.nodeSchema)
       THEN /\ index' = getNextParagraph(index)
            /\ frames' = frames
            /\ Log("TreeNodeStartChildSkip")
       ELSE /\ frames' = <<NewFrame(Top.nodeSchema.content.node,
                                    <<Top.nodeSchema>> \o Top.ancestorNodeList)>>
                         \o frames
            /\ index' = index
            /\ Log("TreeNodeStartChild")
    /\ UNCHANGED <<paragraphList, parseSchema, pc, result, section,
                   sectionTitle, textPartList, listResult, otherVars>>

\* the line parsed with the level's list descriptor, as a list section
\* parses its lines
DetailItemsParsed(text) ==
    ListPush(parseStructuredText(text, frames[1].nodeSchema.content),
             frames[1].nodeSchema.content)

\* what an ordinary line adds to the current node's content
DetailItems(text) == <<Str(Trim(text))>>

\* the paragraph is stepped over and the nodes are left as they are: a
\* higher or same level heading with no node open, or an ordinary line at
\* a level whose content is a tree or with no node open
TreeNodeDiscardsOnlyWithoutNode ==
    IF TreeDecision = "finishCurrentNode" THEN Top.currentNode = 0
    ELSE IF TreeDecision = "appendDetail" THEN Top.currentNode = 0
    ELSE FALSE

TreeNodeDiscards ==
    IF TreeDecision = "finishCurrentNode" THEN Top.currentNode = 0
    ELSE IF TreeDecision = "appendDetail"
    THEN Top.nodeSchema.content.kind = "tree" \/ Top.currentNode = 0
    ELSE FALSE

\* the discarded line without the call of getNextParagraph
TreeNodeDiscardWithoutAdvance ==
    /\ pc = "treeNode"
    /\ TreeDecides
    /\ TreeNodeDiscards
    /\ index' = index
    /\ Log("TreeNodeDiscard")
    /\ UNCHANGED <<paragraphList, parseSchema, pc, result, section,
                   sectionTitle, textPartList, listResult, frames, otherVars>>

TreeNodeDiscard ==
    /\ pc = "treeNode"
    /\ TreeDecides
    /\ TreeNodeDiscards
    /\ index' = getNextParagraph(index)
    /\ Log("TreeNodeDiscard")
    /\ UNCHANGED <<paragraphList, parseSchema, pc, result, section,
                   sectionTitle, textPartList, listResult, frames, otherVars>>

TreeNodeAppendDetail ==
    /\ pc = "treeNode"
    /\ TreeDecides
    /\ TreeDecision = "appendDetail"
    /\ ~TreeNodeDiscards
    /\ frames' = <<PushContent(Top, DetailItems(getCurrentParagraph(index).text))>>
                 \o Tail(frames)
    /\ index' = getNextParagraph(index)
    /\ Log("TreeNodeAppendDetail")
    /\ UNCHANGED <<paragraphList, parseSchema, pc, result, section,
                   sectionTitle, textPartList, listResult, otherVars>>

-----------------------------------------------------------------------------
(* Inputs.  Families of documents, each with its schema: short documents   *)
(* over many kinds of paragraph for the section matcher; documents over    *)
(* text-block and list sections; a list heading followed by up to MaxList  *)
(* paragraphs; the heading of a tree section followed by up to MaxOrphan   *)
(* paragraphs; and that heading and a first root heading followed by up    *)
(* to MaxBody paragraphs.                                                  *)

\* all sequences over pool of length at most n
RECURSIVE SeqsUpTo(_, _)
SeqsUpTo(pool, n) ==
    IF n = 0 THEN {<<>>}
    ELSE LET shorter == SeqsUpTo(pool, n - 1)
         IN  shorter \cup {Append(q, x) : q \in {r \in shorter : Len(r) = n - 1},
                                          x \in pool}

Para(content, namedStyleType) ==
    [elements |-> <<content>>, hasStyle |-> TRUE, namedStyleType |-> namedStyleType]

\* a paragraph without a paragraphStyle object
Unstyled(content) ==
    [elements |-> <<content>>, hasStyle |-> FALSE, namedStyleType |-> Undefined]

TxtAbout == <<"A", "b", "o", "u", "t">>
TxtBio == <<"B", "i", "o">>
TxtTags == <<"T", "a", "g", "s">>
TxtRefs == <<"R", "e", "f", "s">>
TxtLangs == <<"L", "a", "n", "g", "s">>
TxtWork == <<"W", "o", "r", "k">>
TxtTeam == <<"T", "e", "a", "m">>
TxtNotes == <<"N", "o", "t", "e", "s">>
TxtMemo == <<"M", "e", "m", "o">>
TxtVoid == <<"V", "o", "i", "d">>
TxtMisc == <<"M", "i", "s", "c">>

MatchSchema ==
    [sections |-> <<
        [title |-> PlainTitle(<<" ">> \o TxtAbout \o <<" ">>, "HEADING_1"),
         content |-> NoContent],
        [title |-> PlainTitle(<<"a", "b", "o", "u", "t">>, "HEADING_1"),
         content |-> ListContent(<<>>, <<>>, <<>>, FALSE)],
        [title |-> PlainTitle(TxtTeam, "HEADING_2"),
         content |-> ListContent(<<>>, <<>>, <<>>, TRUE)],
        [title |-> PlainTitle(TxtNotes, Undefined), content |-> NoContent],
        [title |-> PlainTitle(<<>>, "HEADING_3"), content |-> NoContent],
        [title |-> PlainTitle(TxtMemo, "NORMAL_TEXT"), content |-> NoContent]
    >>]

MatchPool ==
    { Para(TxtAbout \o <<"\n">>, "HEADING_1"),
      Para(<<" ", "a", "B", "O", "U", "T", " ", "\n">>, "HEADING_1"),
      Para(TxtAbout, "HEADING_2"),
      Para(TxtAbout, "NORMAL_TEXT"),
      Para(<<"O", "t", "h", "e", "r">>, "HEADING_1"),
      Para(<<"t", "e", "a", "m">>, "HEADING_2"),
      Unstyled(TxtNotes),
      Para(<<"x">>, "HEADING_3"),
      Para(<<"m", "e", "m", "o", "\n">>, "NORMAL_TEXT"),
      Unstyled(TxtMemo),
      Para(<<"\n">>, "HEADING_1"),
      Para(TxtAbout, "HEADING_7"),
      [elements |-> <<<<"A", "b">>, <<"o", "u", "t", "\n">>>>, hasStyle |-> TRUE,
       namedStyleType |-> "HEADING_1"] }

FlatSchema ==
    [sections |-> <<
        [title |-> PlainTitle(TxtBio, "HEADING_1"), content |-> NoContent],
        [title |-> PlainTitle(TxtTags, "HEADING_1"),
         content |-> ListContent(<<>>, <<>>, <<>>, TRUE)],
        [title |-> PlainTitle(TxtRefs, "HEADING_2"),
         content |-> ListContent(<<>>, <<>>, <<":">>, TRUE)],
        [title |-> PlainTitle(TxtLangs, "HEADING_2"),
         content |-> ListContent(<<>>, <<>>, <<>>, FALSE)]
    >>]

TextPool ==
    { Para(TxtBio \o <<"\n">>, "HEADING_1"),
      Para(TxtTags \o <<"\n">>, "HEADING_1"),
      Para(<<"a", ",", " ", "b", "\n">>, "NORMAL_TEXT"),
      Unstyled(<<"c", "\n">>),
      Para(<<" ", "\n">>, "HEADING_1"),
      Para(<<"x", "\n">>, "HEADING_3") }

ListHeadings ==
    { Para(TxtTags \o <<"\n">>, "HEADING_1"),
      Para(TxtRefs \o <<"\n">>, "HEADING_2"),
      Para(TxtLangs \o <<"\n">>, "HEADING_2") }

ListPool ==
    ListHeadings \cup
    { Para(<<"a", ",", " ", "b", "\n">>, "NORMAL_TEXT"),
      Unstyled(<<"k", ":", " ", "a", "\n">>),
      Para(<<" ", "\n">>, "HEADING_1"),
      Para(<<"x", "\n">>, "HEADING_3") }

TreeLeaf ==
    MkNode(PlainTitle(<<>>, "HEADING_4"), ListContent(<<>>, <<>>, <<>>, FALSE))
TreeMiddle == MkNode(PlainTitle(<<>>, "HEADING_3"), TreeContent(TreeLeaf))
TreeRoot == MkNode(PlainTitle(<<>>, "HEADING_2"), TreeContent(TreeMiddle))

TreeSchema ==
    [sections |-> <<
        [title |-> PlainTitle(TxtWork, "HEADING_1"), content |-> TreeContent(TreeRoot)],
        [title |-> PlainTitle(TxtBio, "HEADING_2"), content |-> NoContent]
    >>]

TreeHeading == Para(TxtWork \o <<"\n">>, "HEADING_1")

TreeFirstRoot == Para(<<"r", "\n">>, "HEADING_2")

TreePool ==
    { Para(<<"a", "\n">>, "HEADING_2"),
      Para(<<"b", "\n">>, "HEADING_3"),
      Para(<<"c", "\n">>, "HEADING_4"),
      Para(<<"t", "\n">>, "NORMAL_TEXT"),
      Para(<<"z", "\n">>, "HEADING_5"),
      Para(<<"\n">>, "HEADING_2"),
      Para(TxtBio \o <<"\n">>, "HEADING_2") }

\* one section of each shape of content descriptor: none, a list, a tree
\* with its node, a tree without node, and a kind that is neither
DispatchSchema ==
    [sections |-> <<
        [title |-> PlainTitle(TxtBio, "HEADING_1"), content |-> NoContent],
        [title |-> PlainTitle(TxtTags, "HEADING_1"),
         content |-> ListContent(<<>>, <<>>, <<>>, TRUE)],
        [title |-> PlainTitle(TxtWork, "HEADING_1"), content |-> TreeContent(TreeLeaf)],
        [title |-> PlainTitle(TxtVoid, "HEADING_1"),
         content |-> MkContent("tree", <<>>, <<>>, <<>>, FALSE, FALSE, <<>>)],
        [title |-> PlainTitle(TxtMisc, "HEADING_1"),
         content |-> MkContent("table", <<>>, <<>>, <<>>, FALSE, FALSE, <<>>)]
    >>]

DispatchPool ==
    { Para(TxtBio \o <<"\n">>, "HEADING_1"),
      Para(TxtTags \o <<"\n">>, "HEADING_1"),
      Para(TxtWork \o <<"\n">>, "HEADING_1"),
      Para(TxtVoid \o <<"\n">>, "HEADING_1"),
      Para(TxtMisc \o <<"\n">>, "HEADING_1"),
      Para(<<"a", ",", " ", "b", "\n">>, "NORMAL_TEXT"),
      Para(<<"c", "\n">>, "HEADING_4"),
      Para(<<"x", "\n">>, "HEADING_3"),
      [elements |-> <<>>, hasStyle |-> TRUE, namedStyleType |-> "HEADING_1"] }

DispatchDocs == SeqsUpTo(DispatchPool, MaxDispatch)

MatchDocs == SeqsUpTo(MatchPool, MaxShort)

TextDocs == SeqsUpTo(TextPool, MaxFlat)

ListDocs == {<<h>> \o body : h \in ListHeadings, body \in SeqsUpTo(ListPool, MaxList)}

TreeEntryDocs == {<<TreeHeading>> \o body : body \in SeqsUpTo(TreePool, MaxOrphan)}

TreeDocs ==
    {<<TreeHeading, TreeFirstRoot>> \o body : body \in SeqsUpTo(TreePool, MaxBody)}

\* no call of parseDocument has ended yet
NoRun == [pc |-> "none", result |-> <<>>, events |-> <<>>]

InitFirstRun ==
    /\ run = 1
    /\ firstRun = NoRun

\* the promise of a call that has not settled
Pending == [kind |-> "pending"]

\* getParsedDocument is not called
NoCall == [kind |-> "none"]

InitClientIdle ==
    /\ apiOutcome = NoCall
    /\ callPc = "idle"
    /\ settled = Pending
    /\ calls = <<>>

InitLineIdle ==
    /\ lineText = <<>>
    /\ lineSchema = ListContent(<<>>, <<>>, <<>>, FALSE)
    /\ lineOut = Str(<<>>)
    /\ linePc = "idle"

Init ==
    /\ \/ /\ parseSchema = MatchSchema
          /\ paragraphList \in MatchDocs
       \/ /\ parseSchema = FlatSchema
          /\ paragraphList \in TextDocs \cup ListDocs
       \/ /\ parseSchema = TreeSchema
          /\ paragraphList \in TreeEntryDocs \cup TreeDocs
       \/ /\ parseSchema = DispatchSchema
          /\ paragraphList \in DispatchDocs
    /\ index = 0
    /\ pc = "driver"
    /\ result = <<>>
    /\ section = NoSection
    /\ sectionTitle = NoTitle
    /\ textPartList = <<>>
    /\ listResult = <<>>
    /\ frames = <<>>
    /\ events = <<>>
    /\ InitLineIdle
    /\ InitFirstRun
    /\ InitClientIdle

Next ==
    \/ DriverReturn
    \/ DriverAdvance
    \/ DriverEnterSection
    \/ TextBlockSkipEmpty
    \/ TextBlockAppend
    \/ TextBlockReturn
    \/ ListSkipEmpty
    \/ ListAppend
    \/ ListReturn
    \/ TreeSectionSkipEmpty
    \/ TreeSectionSkipOrphan
    \/ TreeSectionReturnEmpty
    \/ TreeSectionEnter
    \/ TreeNodeSkipEmpty
    \/ TreeNodeReturn
    \/ TreeNodeCreate
    \/ TreeNodeStartChild
    \/ TreeNodeDiscard
    \/ TreeNodeAppendDetail

Spec == Init /\ [][Next]_vars

(* The parse is one synchronous call: it goes on taking steps until it is  *)
(* over.  This is weak fairness of Next, with "no step is possible"        *)
(* written as the state predicate it amounts to in this specification,     *)
(* where every state in which the parse is not over has a step.            *)
FairSpec == Spec /\ ([]<><<Next>>_vars \/ <>[](pc \in {"done", "error"}))

-----------------------------------------------------------------------------
(* parseDocument called a second time on the same paragraphs and schema.   *)

\* a second call that is handed the cursor of the first
RerunOnSameCursor ==
    /\ run = 1
    /\ pc \in {"done", "error"}
    /\ firstRun' = [pc |-> pc, result |-> result, events |-> events]
    /\ run' = 2
    /\ index' = index
    /\ result' = <<>>
    /\ events' = <<>>
    /\ pc' = "driver"
    /\ UNCHANGED <<paragraphList, parseSchema, section, sectionTitle,
                   textPartList, listResult, frames, lineVars, clientVars,
                   calls>>

(* the first call is over, by return or by throw; parseDocument is called  *)
(* again: new ParagraphCursor(paragraphList, parseSchema), result = {}     *)
Rerun ==
    /\ run = 1
    /\ pc \in {"done", "error"}
    /\ firstRun' = [pc |-> pc, result |-> result, events |-> events]
    /\ run' = 2
    /\ index' = 0
    /\ result' = <<>>
    /\ events' = <<>>
    /\ pc' = "driver"
    /\ UNCHANGED <<paragraphList, parseSchema, section, sectionTitle,
                   textPartList, listResult, frames, lineVars, clientVars,
                   calls>>

NextTwice ==
    \/ Next
    \/ Rerun

SpecTwice == Init /\ [][NextTwice]_vars

-----------------------------------------------------------------------------
(* getParsedDocument: the client is made, the document is fetched and, if  *)
(* it came, parsed; whatever is thrown on the way is wrapped.              *)

\* the documents of the client's inputs with elements that are no paragraphs
MaxElements == 3

FailurePrefix ==
    <<"G", "o", "o", "g", "l", "e", " ", "D", "o", "c", "s", " ", "A", "P",
      "I", " ", "c", "a", "l", "l", " ", "f", "a", "i", "l", "e", "d", ".",
      " ", "C", "h", "e", "c", "k", " ", "D", "o", "c", " ", "I", "D", " ",
      "a", "n", "d", " ", "S", "e", "r", "v", "i", "c", "e", " ", "A", "c",
      "c", "o", "u", "n", "t", " ", "p", "e", "r", "m", "i", "s", "s", "i",
      "o", "n", "s", ".", " ", "O", "r", "i", "g", "i", "n", "a", "l", " ",
      "e", "r", "r", "o", "r", ":", " ">>

EmptyResponseMessage ==
    <<"E", "m", "p", "t", "y", " ", "d", "o", "c", "u", "m", "e", "n", "t",
      " ", "r", "e", "s", "p", "o", "n", "s", "e", " ", "f", "r", "o", "m",
      " ", "G", "o", "o", "g", "l", "e", " ", "D", "o", "c", "s", " ", "A",
      "P", "I", ".">>

ClientInitMessage ==
    <<"F", "a", "i", "l", "e", "d", " ", "t", "o", " ", "i", "n", "i", "t",
      "i", "a", "l", "i", "z", "e", " ", "G", "o", "o", "g", "l", "e", " ",
      "D", "o", "c", "s", " ", "c", "l", "i", "e", "n", "t", ".", " ", "C",
      "h", "e", "c", "k", " ", "s", "e", "t", "u", "p", " ", "a", "n", "d",
      " ", "c", "r", "e", "d", "e", "n", "t", "i", "a", "l", "s", ".">>

\* new Error(message)
ErrorOf(message) == [kind |-> "error", message |-> message]

\* Number.prototype.toString of a natural number
RECURSIVE NumberToString(_)
NumberToString(n) ==
    LET digit == <<"0", "1", "2", "3", "4", "5", "6", "7", "8", "9">>[(n % 10) + 1]
    IN  IF n < 10 THEN <<digit>> ELSE Append(NumberToString(n \div 10), digit)

\* String(e) of a value that is no Error
StringOf(e) ==
    CASE e.kind = "string" -> e.str
      [] e.kind = "number" -> NumberToString(e.n)
      [] e.kind = "null" -> <<"n", "u", "l", "l">>
      [] e.kind = "undefined" -> <<"u", "n", "d", "e", "f", "i", "n", "e", "d">>
      [] e.kind = "object" ->
            <<"[", "o", "b", "j", "e", "c", "t", " ", "O", "b", "j", "e", "c", "t", "]">>

\* ${e.message} whatever e is: the message of an Error, "undefined" of what
\* has none
OriginalMessageWithoutTypeTest(e) ==
    IF e.kind = "error" THEN e.message
    ELSE <<"u", "n", "d", "e", "f", "i", "n", "e", "d">>

\* e instanceof Error ? e.message : String(e)
OriginalMessage(e) ==
    IF e.kind = "error" THEN e.message ELSE StringOf(e)

\* the Error of the catch clause
WrappedError(e) == ErrorOf(FailurePrefix \o OriginalMessage(e))

Rejected(error) == [kind |-> "rejected", reason |-> error]
Resolved(value) == [kind |-> "resolved", value |-> value]

\* a structural element of the body: a paragraph, or something else
ParagraphElement(paragraph) == [hasParagraph |-> TRUE, paragraph |-> paragraph]
OtherElement == [hasParagraph |-> FALSE, paragraph |-> Unstyled(<<>>)]

\* content.map((element) => element.paragraph).filter((paragraph) => !!paragraph)
RECURSIVE validParagraphList(_)
validParagraphList(content) ==
    IF content = <<>> THEN <<>>
    ELSE IF Head(content).hasParagraph
    THEN <<Head(content).paragraph>> \o validParagraphList(Tail(content))
    ELSE validParagraphList(Tail(content))

\* doc.body?.content || []
ContentOf(doc) == IF doc.hasBody /\ doc.hasContent THEN doc.content ELSE <<>>

\* what is thrown inside the try before the parse, if anything
ThrownBeforeParse(outcome) ==
    CASE outcome.kind = "clientThrows" -> ErrorOf(ClientInitMessage)
      [] outcome.kind = "rejects" -> outcome.reason
      [] outcome.kind = "resolves" /\ ~outcome.hasData -> ErrorOf(EmptyResponseMessage)

ThrowsBeforeParse(outcome) ==
    \/ outcome.kind \in {"clientThrows", "rejects"}
    \/ outcome.kind = "resolves" /\ ~outcome.hasData

(* createDocsClient(), await docs.documents.get, the test of response.data *)
(* and the entry of parseDocument                                          *)
ClientGet ==
    /\ callPc = "called"
    /\ IF ThrowsBeforeParse(apiOutcome)
       THEN /\ settled' = Rejected(WrappedError(ThrownBeforeParse(apiOutcome)))
            /\ callPc' = "settled"
            /\ UNCHANGED <<paragraphList, index, pc, result>>
       ELSE /\ paragraphList' = validParagraphList(ContentOf(apiOutcome.data))
            /\ index' = 0
            /\ result' = <<>>
            /\ pc' = "driver"
            /\ callPc' = "parsing"
            /\ settled' = settled
    /\ UNCHANGED <<parseSchema, section, sectionTitle, textPartList, listResult,
                   frames, events, apiOutcome, lineVars, runVars, calls>>

(* parseDocument has returned: return parsedDocument *)
ClientReturn ==
    /\ callPc = "parsing"
    /\ pc = "done"
    /\ settled' = Resolved(result)
    /\ callPc' = "settled"
    /\ UNCHANGED <<docVars, apiOutcome, lineVars, runVars, calls>>

ErrorMessages ==
    {<<>>, <<"n", "o">>, <<"4", "0", "4">>}

NonErrorValues ==
    {[kind |-> "string", str |-> <<"n", "o">>],
     [kind |-> "string", str |-> <<>>],
     [kind |-> "number", n |-> 0],
     [kind |-> "number", n |-> 404],
     [kind |-> "null"],
     [kind |-> "undefined"],
     [kind |-> "object"]}

Document(content) == [hasBody |-> TRUE, hasContent |-> TRUE, content |-> content]
NoBodyDocument == [hasBody |-> FALSE, hasContent |-> FALSE, content |-> <<>>]
NoContentDocument == [hasBody |-> TRUE, hasContent |-> FALSE, content |-> <<>>]

\* the document whose elements are the paragraphs of list, one each
DocumentOf(list) == Document([i \in 1..Len(list) |-> ParagraphElement(list[i])])

ElementPool ==
    { OtherElement,
      ParagraphElement(Para(TxtBio \o <<"\n">>, "HEADING_1")),
      ParagraphElement(Para(<<"a", ",", " ", "b", "\n">>, "NORMAL_TEXT")) }

ElementDocs ==
    {NoBodyDocument, NoContentDocument}
        \cup {Document(content) : content \in SeqsUpTo(ElementPool, MaxElements)}

Failures ==
    {[kind |-> "clientThrows"], [kind |-> "resolves", hasData |-> FALSE]}
        \cup {[kind |-> "rejects", reason |-> ErrorOf(m)] : m \in ErrorMessages}
        \cup {[kind |-> "rejects", reason |-> v] : v \in NonErrorValues}

Fetched(docs) == {[kind |-> "resolves", hasData |-> TRUE, data |-> d] : d \in docs}

InitClient ==
    /\ \/ /\ parseSchema = DispatchSchema
          /\ apiOutcome \in
                Failures \cup Fetched(ElementDocs)
                    \cup Fetched({DocumentOf(list) : list \in DispatchDocs})
       \/ /\ parseSchema = FlatSchema
          /\ apiOutcome \in
                Failures \cup Fetched({DocumentOf(list) : list \in ListDocs})
       \/ /\ parseSchema = TreeSchema
          /\ apiOutcome \in Fetched({DocumentOf(list) : list \in TreeDocs})
    /\ callPc = "called"
    /\ settled = Pending
    /\ paragraphList = <<>>
    /\ index = 0
    /\ pc = "idle"
    /\ result = <<>>
    /\ section = NoSection
    /\ sectionTitle = NoTitle
    /\ textPartList = <<>>
    /\ listResult = <<>>
    /\ frames = <<>>
    /\ events = <<>>
    /\ calls = <<>>
    /\ InitLineIdle
    /\ InitFirstRun

NextClient ==
    \/ ClientGet
    \/ Next
    \/ ClientReturn

SpecClient == InitClient /\ [][NextClient]_vars


-----------------------------------------------------------------------------
(* A ParagraphCursor used on its own: any sequence of at most MaxCalls     *)
(* calls of its methods, on every document of at most MaxCursorDoc         *)
(* paragraphs over CursorPool.                                             *)

MaxCalls == 4
MaxCursorDoc == 2

CursorPool ==
    { Para(TxtBio \o <<"\n">>, "HEADING_1"),
      Para(<<"a", "\n">>, "NORMAL_TEXT"),
      Para(<<"x", "\n">>, "HEADING_3"),
      Para(<<" ", "\n">>, "HEADING_1"),
      [elements |-> <<>>, hasStyle |-> FALSE, namedStyleType |-> Undefined] }

CursorDocs == SeqsUpTo(CursorPool, MaxCursorDoc)

Queries ==
    {"getCurrentParagraph", "isEndOfDocument", "getCurrentSectionTitle",
     "isAtNewSection", "isAtParagraphHeading"}

\* what the query returns at position i
QueryResult(op, i) ==
    CASE op = "getCurrentParagraph" -> [paragraph |-> getCurrentParagraph(i)]
      [] op = "isEndOfDocument" -> [boolean |-> isEndOfDocument(i)]
      [] op = "getCurrentSectionTitle" -> [title |-> getCurrentSectionTitle(i)]
      [] op = "isAtNewSection" -> [boolean |-> isAtNewSection(i)]
      [] op = "isAtParagraphHeading" -> [boolean |-> isAtParagraphHeading(i)]

(* cursor.getNextParagraph() *)
CursorGetNextParagraph ==
    /\ pc = "cursor"
    /\ Len(calls) < MaxCalls
    /\ index' = getNextParagraph(index)
    /\ calls' = Append(calls,
                       [op |-> "getNextParagraph", from |-> index, to |-> index',
                        returned |-> [paragraph |->
                            IF isEndOfDocument(index) THEN NullParagraph
                            ELSE getCurrentParagraph(index')]])
    /\ UNCHANGED <<paragraphList, parseSchema, pc, result, section, sectionTitle,
                   textPartList, listResult, frames, events, lineVars, runVars,
                   clientVars>>

(* one of the cursor's queries *)
CursorQuery ==
    /\ pc = "cursor"
    /\ Len(calls) < MaxCalls
    /\ index' = index
    /\ \E op \in Queries :
          calls' = Append(calls, [op |-> op, from |-> index, to |-> index',
                                  returned |-> QueryResult(op, index)])
    /\ UNCHANGED <<paragraphList, parseSchema, pc, result, section, sectionTitle,
                   textPartList, listResult, frames, events, lineVars, runVars,
                   clientVars>>

InitCursor ==
    /\ parseSchema = FlatSchema
    /\ paragraphList \in CursorDocs
    /\ index = 0
    /\ pc = "cursor"
    /\ result = <<>>
    /\ section = NoSection
    /\ sectionTitle = NoTitle
    /\ textPartList = <<>>
    /\ listResult = <<>>
    /\ frames = <<>>
    /\ events = <<>>
    /\ InitLineIdle
    /\ InitFirstRun
    /\ InitClientIdle

NextCursor ==
    \/ CursorGetNextParagraph
    \/ CursorQuery

SpecCursor == InitCursor /\ [][NextCursor]_vars

-----------------------------------------------------------------------------
(* The structured text parser on its own: every text of at most MaxLen     *)
(* characters over LineAlphabet, under every schema of LineSchemas.        *)

LineAlphabet == {"a", "b", " ", ",", ":", "|"}

LineTexts == SeqsUpTo(LineAlphabet, MaxLen)

LineDelimiters == {<<>>, <<"|">>, <<",", " ">>}
LineKeyDelimiters == {<<>>, <<":">>}
LineKeys == {<<>>, <<"x", "y">>, <<"x", "x">>}

LineSchemas ==
    {ListContent(d, k, kd, FALSE) :
        d \in LineDelimiters, k \in LineKeys, kd \in LineKeyDelimiters}

InitDocIdle ==
    /\ paragraphList = <<>>
    /\ parseSchema = [sections |-> <<>>]
    /\ index = 0
    /\ pc = "idle"
    /\ result = <<>>
    /\ section = NoSection
    /\ sectionTitle = NoTitle
    /\ textPartList = <<>>
    /\ listResult = <<>>
    /\ frames = <<>>
    /\ events = <<>>
    /\ InitFirstRun
    /\ InitClientIdle

InitLine ==
    /\ lineText \in LineTexts
    /\ lineSchema \in LineSchemas
    /\ lineOut = Str(<<>>)
    /\ linePc = "input"
    /\ InitDocIdle

(* a call of parseStructuredText *)
ParseLine ==
    /\ linePc = "input"
    /\ lineOut' = parseStructuredText(lineText, lineSchema)
    /\ linePc' = "parsed"
    /\ UNCHANGED <<lineText, lineSchema, docVars, runVars, clientVars, calls>>

NextLine == ParseLine

SpecLine == InitLine /\ [][NextLine]_vars

-----------------------------------------------------------------------------
(* Vocabulary of the properties.                                           *)

\* the cursor is on a paragraph that carries text
AtParagraph == ~isEndOfDocument(index) /\ ~getCurrentParagraph(index).isNull

\* the text of the paragraph at the 0-based position i
TextAt(i) == getParagraph(paragraphList[i + 1]).text

IsEmptyAt(i) == getParagraph(paragraphList[i + 1]).isNull

RECURSIVE StripLeft(_)
StripLeft(s) ==
    IF s = <<>> THEN s
    ELSE IF IsWhitespace(Head(s)) THEN StripLeft(Tail(s))
    ELSE s

RECURSIVE StripRight(_)
StripRight(s) ==
    IF s = <<>> THEN s
    ELSE IF IsWhitespace(s[Len(s)]) THEN StripRight(SubSeq(s, 1, Len(s) - 1))
    ELSE s

\* the same letter, in either case
SameLetter(c, d) ==
    \/ c = d
    \/ \E i \in 1..Len(UpperChars) : {c, d} = {UpperChars[i], LowerChars[i]}

\* equal once surrounding whitespace is dropped and case is ignored
SameTitleText(a, b) ==
    LET x == StripRight(StripLeft(a))
        y == StripRight(StripLeft(b))
    IN  /\ Len(x) = Len(y)
        /\ \A i \in 1..Len(x) : SameLetter(x[i], y[i])

\* the sections that declare a name and a style tag, whose style tag is the
\* named style of the paragraph at i and whose name is its text, case and
\* surrounding whitespace apart
SectionsMatchingAt(i) ==
    {k \in 1..Len(parseSchema.sections) :
        LET title == parseSchema.sections[k].title
            P == paragraphList[i + 1]
        IN  /\ title.name # <<>>
            /\ title.namedStyleType # Undefined
            /\ P.hasStyle
            /\ P.namedStyleType = title.namedStyleType
            /\ SameTitleText(title.name, TextAt(i))}

Least(S) == CHOOSE k \in S : \A j \in S : k <= j

-----------------------------------------------------------------------------
(* C1: on a paragraph that carries text, the cursor reports a section      *)
(* boundary if and only if some section that declares a name and a style   *)
(* tag has the paragraph's named style as its style tag and the            *)
(* paragraph's text as its name, both trimmed and lower-cased; a match of  *)
(* the style alone or of the text alone is no boundary; and the title      *)
(* returned is the name of the first such section of the schema, as the    *)
(* schema spells it.                                                       *)
C1_SectionBoundaryIffStyleAndText ==
    AtParagraph =>
        LET M == SectionsMatchingAt(index)
        IN  /\ isAtNewSection(index) <=> M # {}
            /\ M # {} =>
                 getCurrentSectionTitle(index) =
                     parseSchema.sections[Least(M)].title.name
            /\ M = {} => getCurrentSectionTitle(index) = NoTitle

\* the cursor is on a heading that two sections match, written in another
\* case and with other padding than the name returned
C1_Witness ==
    /\ AtParagraph
    /\ index > 0
    /\ isAtNewSection(index)
    /\ Cardinality(SectionsMatchingAt(index)) >= 2
    /\ Trim(getCurrentSectionTitle(index)) # TextAt(index)
    /\ getCurrentSectionTitle(index) # Trim(getCurrentSectionTitle(index))

-----------------------------------------------------------------------------
(* Vocabulary of the tree properties.  The open levels are the             *)
(* parseTreeNode activations, the root level being level 1 and the         *)
(* innermost the level Len(frames).                                        *)

\* the title style of the open level k
LevelStyle(k) == frames[Len(frames) - k + 1].nodeSchema.title.namedStyleType

\* the open level whose title style is the named style of the paragraph at
\* i, 0 if there is none
HeadingLevel(i) ==
    LET P == paragraphList[i + 1]
        hits == {k \in 1..Len(frames) :
                    P.hasStyle /\ P.namedStyleType = LevelStyle(k)}
    IN  IF hits = {} THEN 0 ELSE Least(hits)

\* after is before with children added to the content of its last node
AttachedToLast(before, children, after) ==
    LET n == Len(before.result)
    IN  /\ n >= 1
        /\ Len(after.result) = n
        /\ \A j \in 1..(n - 1) : after.result[j] = before.result[j]
        /\ after.result[n].title = before.result[n].title
        /\ after.result[n].content = before.result[n].content \o children
        /\ after.nodeSchema = before.nodeSchema

\* the steps taken on the paragraph at p since the tree was entered
StepsAt(p) ==
    LET entered == {k \in 1..Len(events) : events[k].act = "TreeSectionEnter"}
        from == IF entered = {} THEN 0
                ELSE CHOOSE k \in entered : \A j \in entered : j <= k
    IN  {k \in (from + 1)..Len(events) : events[k].pos = p}

\* a heading of an open level, or of an enclosing one, with its level L met
\* while the levels down to d are open: the step it causes
ClosesOrOpensSibling(L, d) ==
    IF d > L
    THEN /\ index' = index
         /\ pc' = "treeNode"
         /\ Len(frames') = d - 1
         /\ AttachedToLast(frames[2], frames[1].result, frames'[1])
         /\ Tail(frames') = Tail(Tail(frames))
    ELSE /\ index' = index + 1
         /\ pc' = "treeNode"
         /\ Len(frames') = d
         /\ frames'[1].result =
                Append(frames[1].result, TreeNode(Str(TextAt(index)), <<>>))
         /\ Tail(frames') = Tail(frames)

\* every heading of a level of the tree that the tree has passed was
\* consumed by one step, which made it a node of its own level
PassedHeadingsBecameOneNode ==
    pc = "treeNode" =>
        \A p \in 0..(index - 1) :
            LET L == HeadingLevel(p)
                consuming == {k \in StepsAt(p) :
                                events[k].act \notin {"TreeNodeReturn",
                                                      "TreeNodeStartChild",
                                                      "TreeSectionEnter"}}
            IN  (StepsAt(p) # {} /\ ~IsEmptyAt(p) /\ L # 0) =>
                    /\ Cardinality(consuming) = 1
                    /\ \A k \in consuming :
                          events[k].act = "TreeNodeCreate" /\ events[k].depth = L

-----------------------------------------------------------------------------
-----------------------------------------------------------------------------
\* an ordinary line: a paragraph with text that is neither a recognized
\* heading nor a section boundary
IsOrdinaryLineAt(i) ==
    /\ ~IsEmptyAt(i)
    /\ ~isAtParagraphHeading(i)
    /\ ~isAtNewSection(i)

\* the content of every node of a level whose content is a tree holds
\* nodes only
OnlyNodesUnderTreeLevels ==
    \A f \in 1..Len(frames) :
        frames[f].nodeSchema.content.kind = "tree" =>
            \A n \in 1..Len(frames[f].result) :
                \A c \in 1..Len(frames[f].result[n].content) :
                    frames[f].result[n].content[c].kind = "node"

\* the paragraph at i carries the title style of the level below the
\* innermost open one
IsChildHeadingAt(i) ==
    /\ ~IsEmptyAt(i)
    /\ ~isAtNewSection(i)
    /\ Top.nodeSchema.content.kind = "tree"
    /\ paragraphList[i + 1].hasStyle
    /\ paragraphList[i + 1].namedStyleType =
            Top.nodeSchema.content.node.title.namedStyleType

(* C3: strict nesting.  At a level of the tree whose content is a tree,    *)
(* an ordinary line met under a node of that level is stepped over and     *)
(* nothing else changes, so no such node's content ever holds a line; and  *)
(* a heading of the child level that follows opens the child level under   *)
(* the same, unchanged node.                                               *)
C3_StrictNesting ==
    /\ []OnlyNodesUnderTreeLevels
    /\ [][(/\ pc = "treeNode"
           /\ ~isEndOfDocument(index)
           /\ IsOrdinaryLineAt(index)
           /\ Top.nodeSchema.content.kind = "tree"
           /\ Top.currentNode # 0)
            => /\ index' = index + 1
               /\ frames' = frames
               /\ pc' = pc
               /\ result' = result]_vars
    /\ [][(/\ pc = "treeNode"
           /\ ~isEndOfDocument(index)
           /\ IsChildHeadingAt(index)
           /\ Len(events) > 0
           /\ events[Len(events)].act = "TreeNodeDiscard"
           /\ IsOrdinaryLineAt(events[Len(events)].pos))
            => /\ index' = index
               /\ Len(frames') = Len(frames) + 1
               /\ Tail(frames') = frames
               /\ frames'[1].nodeSchema = Top.nodeSchema.content.node
               /\ frames'[1].result = <<>>
               /\ Top.currentNode = Len(Top.result)]_vars

\* the parse is over; a line under a node of a tree-typed level was
\* discarded and the heading after it opened the child level, whose node
\* then went into that node
C3_Witness ==
    /\ pc = "done"
    /\ \E k \in 1..(Len(events) - 1) :
          /\ events[k].act = "TreeNodeDiscard"
          /\ IsOrdinaryLineAt(events[k].pos)
          /\ events[k + 1].act = "TreeNodeStartChild"
          /\ events[k + 1].pos = events[k].pos + 1
    /\ \E r \in 1..Len(result) :
          /\ result[r].value.kind = "array"
          /\ Len(result[r].value.items) = 1
          /\ Len(result[r].value.items[1].content) = 1

-----------------------------------------------------------------------------
(* Vocabulary of the results.                                              *)

HasKey(map, name) == \E i \in 1..Len(map) : map[i].name = name

ValueOf(map, name) == map[CHOOSE i \in 1..Len(map) : map[i].name = name].value

\* after is before with value stored under name and nothing else changed
StoredUnder(before, name, value, after) ==
    /\ HasKey(after, name)
    /\ ValueOf(after, name) = value
    /\ \A i \in 1..Len(before) :
          before[i].name # name =>
              /\ HasKey(after, before[i].name)
              /\ ValueOf(after, before[i].name) = before[i].value
    /\ \A i \in 1..Len(after) :
          after[i].name # name => HasKey(before, after[i].name)

\* the position of the heading of the section being parsed
SectionHeadingPos ==
    LET entered == {k \in 1..Len(events) : events[k].act = "DriverEnterSection"}
    IN  events[CHOOSE k \in entered : \A j \in entered : j <= k].pos

\* the least position from i on that satisfies Q, the length of the
\* document if there is none
FirstFrom(i, Q(_)) ==
    LET hits == {j \in i..(Len(paragraphList) - 1) : Q(j)}
    IN  IF hits = {} THEN Len(paragraphList) ELSE Least(hits)

\* a paragraph with text that ends the tree: a section boundary or a
\* recognized heading whose style is none of the tree's
EndsTreeAt(i) ==
    /\ ~IsEmptyAt(i)
    /\ \/ isAtNewSection(i)
       \/ /\ isAtParagraphHeading(i)
          /\ paragraphList[i + 1].namedStyleType \notin AllNodeTitleStyles

\* a paragraph with text and the style of the tree's root level
IsRootHeadingAt(i) ==
    /\ ~IsEmptyAt(i)
    /\ paragraphList[i + 1].hasStyle
    /\ paragraphList[i + 1].namedStyleType = RootNode.title.namedStyleType

EndsEntryScanAt(i) == EndsTreeAt(i) \/ IsRootHeadingAt(i)

\* where the entry scan of the tree section being parsed ends
EntryScanEnd == FirstFrom(SectionHeadingPos + 1, EndsEntryScanAt)

(* C4: orphan discard at tree entry.  The scan that starts after the       *)
(* section heading steps over every paragraph before the first one that    *)
(* is a root heading, ends the tree or is the end of the document, making  *)
(* no node and storing nothing; at a root heading that does not end the    *)
(* tree the root level is opened on that heading, whose first step makes   *)
(* it the first node; at a section boundary, a heading outside the tree's  *)
(* styles or the end of the document the empty list is stored for the      *)
(* section and the cursor stays.                                           *)
C4_OrphanDiscard ==
    /\ [](pc = "treeSection" =>
            /\ index >= SectionHeadingPos + 1
            /\ index <= EntryScanEnd
            /\ frames = <<>>)
    /\ [][pc = "treeSection" =>
            IF index < EntryScanEnd
            THEN /\ index' = index + 1
                 /\ pc' = "treeSection"
                 /\ frames' = <<>>
                 /\ result' = result
            ELSE IF ~isEndOfDocument(index) /\ ~EndsTreeAt(index)
            THEN /\ index' = index
                 /\ pc' = "treeNode"
                 /\ Len(frames') = 1
                 /\ frames'[1].result = <<>>
                 /\ frames'[1].nodeSchema = RootNode
                 /\ result' = result
            ELSE /\ index' = index
                 /\ pc' = "driver"
                 /\ StoredUnder(result, sectionTitle, Arr(<<>>), result')]_vars
    /\ [][(/\ pc = "treeNode"
           /\ events[Len(events)].act = "TreeSectionEnter")
            => /\ index' = index + 1
               /\ Len(frames') = 1
               /\ frames'[1].result = <<TreeNode(Str(TextAt(index)), <<>>)>>]_vars

\* the parse is over; the entry scan stepped over an ordinary line and a
\* heading of a deeper level, and the tree then started at a root heading
C4_Witness ==
    /\ pc = "done"
    /\ \E i, j, k \in 1..Len(events) :
          /\ i < k /\ j < k
          /\ events[i].act = "TreeSectionSkipOrphan"
          /\ IsOrdinaryLineAt(events[i].pos)
          /\ events[j].act = "TreeSectionSkipOrphan"
          /\ isAtParagraphHeading(events[j].pos)
          /\ events[k].act = "TreeSectionEnter"
          /\ \A m \in (IF i < j THEN i ELSE j)..k :
                events[m].act \in {"TreeSectionSkipOrphan", "TreeSectionSkipEmpty",
                                   "TreeSectionEnter"}

-----------------------------------------------------------------------------
(* Vocabulary of the flat strategies.                                      *)

\* the paragraph at i carries one of the heading styles
IsRecognizedHeadingAt(i) ==
    /\ paragraphList[i + 1].hasStyle
    /\ paragraphList[i + 1].namedStyleType \in
          {"HEADING_1", "HEADING_2", "HEADING_3", "HEADING_4", "HEADING_5",
           "HEADING_6", "TITLE", "SUBTITLE"}

IsSectionBoundaryAt(i) == ~IsEmptyAt(i) /\ SectionsMatchingAt(i) # {}

\* a paragraph with text that is a section boundary or a recognized heading
EndsFlatAt(i) ==
    /\ ~IsEmptyAt(i)
    /\ (SectionsMatchingAt(i) # {} \/ IsRecognizedHeadingAt(i))

\* the texts of the paragraphs that carry text, from lo up to and not
\* including hi, in order, with one space between two of them
RECURSIVE SpacedTexts(_, _)
SpacedTexts(lo, hi) ==
    IF hi <= lo THEN <<>>
    ELSE LET before == SpacedTexts(lo, hi - 1)
         IN  IF IsEmptyAt(hi - 1) THEN before
             ELSE IF before = <<>> THEN TextAt(hi - 1)
             ELSE before \o <<" ">> \o TextAt(hi - 1)

LastEvent == events[Len(events)]

(* C5: text block strategy.  When the strategy returns, the cursor is on   *)
(* the first paragraph with text, from the one after the section heading   *)
(* on, that is a section boundary or a recognized heading, or at the end   *)
(* of the document, and the value stored for the section is the texts of   *)
(* the paragraphs with text before it, in order, with one space between    *)
(* two of them: the empty string if there is none.                         *)
C5_TextBlockIsSpacedTexts ==
    (Len(events) > 0 /\ LastEvent.act = "TextBlockReturn") =>
        LET h == SectionHeadingPos
            F == FirstFrom(h + 1, EndsFlatAt)
            name == parseSchema.sections[Least(SectionsMatchingAt(h))].title.name
        IN  /\ index = F
            /\ HasKey(result, name)
            /\ ValueOf(result, name) = Str(SpacedTexts(h + 1, F))

\* a text block of two different texts has ended at a heading that starts
\* no section
C5_Witness ==
    /\ Len(events) > 0
    /\ LastEvent.act = "TextBlockReturn"
    /\ ~isEndOfDocument(index)
    /\ IsRecognizedHeadingAt(index)
    /\ SectionsMatchingAt(index) = {}
    /\ \E i, j \in (SectionHeadingPos + 1)..(index - 1) :
          /\ i < j
          /\ ~IsEmptyAt(i) /\ ~IsEmptyAt(j)
          /\ TextAt(i) # TextAt(j)

\* the sections without a content descriptor
TextBlockSections ==
    {k \in 1..Len(parseSchema.sections) :
        parseSchema.sections[k].content.kind = "absent"}

\* the positions of the headings of section k
HeadingsOf(k) ==
    {h \in 0..(Len(paragraphList) - 1) :
        IsSectionBoundaryAt(h) /\ Least(SectionsMatchingAt(h)) = k}

Greatest(S) == CHOOSE k \in S : \A j \in S : j <= k

-----------------------------------------------------------------------------
\* the list made of the paragraphs with text from lo up to and not
\* including hi, each parsed as a line of content: the elements of its
\* array when content flattens, the parsed value as one item otherwise
RECURSIVE ListedLines(_, _, _)
ListedLines(lo, hi, content) ==
    IF hi <= lo THEN <<>>
    ELSE LET before == ListedLines(lo, hi - 1, content)
             parsed == parseStructuredText(TextAt(hi - 1), content)
         IN  IF IsEmptyAt(hi - 1) THEN before
             ELSE IF content.isFlatten /\ parsed.kind = "array"
             THEN before \o parsed.items
             ELSE before \o <<parsed>>

LineAB == Para(<<"a", ",", " ", "b", "\n">>, "NORMAL_TEXT")
LineKA == Unstyled(<<"k", ":", " ", "a", "\n">>)

-----------------------------------------------------------------------------
(* Vocabulary of the structured text parser.                               *)

Parsed == linePc = "parsed"

\* the line delimiter in force
LineDelimiter ==
    IF lineSchema.delimiter # <<>> THEN lineSchema.delimiter ELSE <<",">>

\* the tokens of s split on the line delimiter, each trimmed
TrimmedTokens(s) == MapTrim(Split(s, LineDelimiter))

(* C8: the priority of the parsing rules.  With keyDelimiter set the line  *)
(* is parsed as a keyed pair, keys set or not: the result is a {key,       *)
(* value} pair or the text as a plain string, never a record of the keys;  *)
(* with keyDelimiter unset and keys non-empty it is the record of the      *)
(* keys; with neither it is the plain list.                                *)
C8_RulePriority ==
    Parsed =>
        IF lineSchema.keyDelimiter # <<>>
        THEN /\ lineOut.kind \in {"keyed", "string"}
             /\ lineOut = parseToKeyedList(lineText, lineSchema.keyDelimiter,
                                           LineDelimiter)
        ELSE IF Len(lineSchema.keys) > 0
        THEN /\ lineOut.kind = "fields"
             /\ lineOut = parseToFields(lineText, lineSchema.keys, LineDelimiter)
        ELSE /\ lineOut.kind = "array"
             /\ lineOut = parseDelimitedList(lineText, LineDelimiter)

\* a line holding the key delimiter was parsed under a schema that sets
\* both keyDelimiter and keys, and gave a keyed pair with values
C8_Witness ==
    /\ Parsed
    /\ lineSchema.keyDelimiter # <<>>
    /\ Len(lineSchema.keys) > 0
    /\ lineOut.kind = "keyed"
    /\ Len(lineOut.value) = 2

(* C9: keyed-pair parsing.  With keyDelimiter set: if it does not occur    *)
(* in the text or occurs at index 0, the result is the text as a plain     *)
(* string; otherwise it is {key, value}, the key being the trimmed text    *)
(* before the first occurrence and the value the tokens of the remainder   *)
(* split on the line delimiter, each trimmed, the empty ones dropped.      *)
C9_KeyedPairSplitsRemainder ==
    (Parsed /\ lineSchema.keyDelimiter # <<>>) =>
        LET kd == lineSchema.keyDelimiter
            occurrences == {i \in 0..(Len(lineText) - Len(kd)) :
                              SubSeq(lineText, i + 1, i + Len(kd)) = kd}
        IN  IF occurrences = {} \/ 0 \in occurrences
            THEN lineOut = Str(lineText)
            ELSE LET first == Least(occurrences)
                     before == SubSeq(lineText, 1, first)
                     remainder == SubSeq(lineText, first + Len(kd) + 1, Len(lineText))
                 IN  lineOut = Keyed(Trim(before),
                                     FilterNonEmpty(TrimmedTokens(remainder)))

\* the positions of keys at which the key is listed for the last time
LastListed(keys) ==
    {i \in 1..Len(keys) : \A j \in (i + 1)..Len(keys) : keys[j] # keys[i]}

(* C10: fixed-field parsing.  With keyDelimiter unset and keys non-empty   *)
(* the result is a record whose fields are exactly the keys; the i-th key  *)
(* holds the i-th token of the text split on the line delimiter, trimmed,  *)
(* empty tokens keeping their place, and the empty string when there are   *)
(* fewer than i tokens; tokens past the last key appear nowhere.  (A       *)
(* record holds one value per key: a key listed twice holds the token of   *)
(* its last position.)                                                     *)
C10_FieldsByPosition ==
    (Parsed /\ lineSchema.keyDelimiter = <<>> /\ Len(lineSchema.keys) > 0) =>
        LET keys == lineSchema.keys
            tokens == TrimmedTokens(lineText)
        IN  /\ lineOut.kind = "fields"
            /\ DOMAIN lineOut.rec = {keys[i] : i \in 1..Len(keys)}
            /\ \A i \in LastListed(keys) :
                  lineOut.rec[keys[i]] =
                      IF i <= Len(tokens) THEN tokens[i] ELSE <<>>

\* a line of three tokens, the first of them empty, was parsed into two
\* different keys: the first key holds the empty string, the second the
\* second token
C10_Witness ==
    /\ Parsed
    /\ lineSchema.keyDelimiter = <<>>
    /\ lineSchema.keys = <<"x", "y">>
    /\ Len(TrimmedTokens(lineText)) = 3
    /\ lineOut.kind = "fields"
    /\ lineOut.rec["x"] = <<>>
    /\ lineOut.rec["y"] # <<>>

-----------------------------------------------------------------------------
\* the positions of the tokens that are not empty
NonEmptyPositions(tokens) == {p \in 1..Len(tokens) : tokens[p] # <<>>}

\* the k-th smallest member of the set of numbers S
Kth(S, k) == CHOOSE p \in S : Cardinality({q \in S : q <= p}) = k

(* C11: plain-list parsing.  With keyDelimiter and keys unset the result   *)
(* is the list of the tokens of the text split on the line delimiter,      *)
(* each trimmed, in order, without the empty ones: it holds no empty       *)
(* string.  And under each of the three rules a schema that leaves         *)
(* delimiter unspecified parses as the same schema with delimiter ",".     *)
C11_PlainListDropsEmptyTokens ==
    Parsed =>
        /\ (lineSchema.keyDelimiter = <<>> /\ Len(lineSchema.keys) = 0) =>
              LET tokens == TrimmedTokens(lineText)
                  kept == NonEmptyPositions(tokens)
              IN  /\ lineOut.kind = "array"
                  /\ Len(lineOut.items) = Cardinality(kept)
                  /\ \A k \in 1..Len(lineOut.items) :
                        /\ lineOut.items[k] = Str(tokens[Kth(kept, k)])
                        /\ lineOut.items[k].str # <<>>
        /\ lineSchema.delimiter = <<>> =>
              lineOut = parseStructuredText(lineText,
                            [lineSchema EXCEPT !.delimiter = <<",">>])

\* a text with an empty token between two others was parsed as a plain
\* list under a schema without delimiter, and gave the two
C11_Witness ==
    /\ Parsed
    /\ lineSchema.keyDelimiter = <<>>
    /\ Len(lineSchema.keys) = 0
    /\ lineSchema.delimiter = <<>>
    /\ Len(TrimmedTokens(lineText)) = 3
    /\ TrimmedTokens(lineText)[2] = <<>>
    /\ Len(lineOut.items) = 2
    /\ lineOut.items[1] # lineOut.items[2]

-----------------------------------------------------------------------------
\* the driver is on the heading of a section
DriverAtHeading ==
    /\ pc = "driver"
    /\ ~isEndOfDocument(index)
    /\ IsSectionBoundaryAt(index)

\* the section whose heading is at i
SectionAt(i) == parseSchema.sections[Least(SectionsMatchingAt(i))]

(* C12: content dispatch.  On the heading of a section the driver steps    *)
(* past it and the content descriptor alone decides what runs at the next  *)
(* paragraph: the text block strategy when there is no descriptor, the     *)
(* list strategy for kind "list", the tree strategy for kind "tree" with   *)
(* a node; for kind "tree" without a node the empty list is stored at      *)
(* once and the driver goes on from that paragraph; the text block         *)
(* strategy for any other kind.  No error is ever raised.                  *)
C12_DispatchByContent ==
    /\ [](pc # "error")
    /\ [][DriverAtHeading =>
            LET content == SectionAt(index).content
                name == SectionAt(index).title.name
                runs(strategy) ==
                    /\ pc' = strategy
                    /\ section' = SectionAt(index)
                    /\ result' = result
            IN  /\ index' = index + 1
                /\ IF content.kind = "absent" THEN runs("textBlock")
                   ELSE IF content.kind = "list" THEN runs("list")
                   ELSE IF content.kind = "tree" /\ content.hasNode
                   THEN runs("treeSection")
                   ELSE IF content.kind = "tree"
                   THEN /\ pc' = "driver"
                        /\ StoredUnder(result, name, Arr(<<>>), result')
                   ELSE runs("textBlock")]_vars

\* the parse is over; a tree section without node was given the empty
\* list, and the section of unknown kind after it the text that follows it
C12_Witness ==
    /\ pc = "done"
    /\ HasKey(result, TxtVoid)
    /\ ValueOf(result, TxtVoid) = Arr(<<>>)
    /\ HasKey(result, TxtMisc)
    /\ ValueOf(result, TxtMisc) = Str(<<"a", ",", " ", "b">>)

-----------------------------------------------------------------------------
(* Vocabulary of the driver.                                               *)

\* the positions of the paragraphs with text that match a section title
MatchingPositions ==
    {p \in 0..(Len(paragraphList) - 1) : IsSectionBoundaryAt(p)}

\* the steps of the run at which the dispatcher was invoked
Dispatches == {k \in 1..Len(events) : events[k].act = "DriverEnterSection"}

SchemaNames ==
    {parseSchema.sections[k].title.name : k \in 1..Len(parseSchema.sections)}

Keys(map) == {map[i].name : i \in 1..Len(map)}

(* C13: when the parse is over, the keys of the output are the names, as   *)
(* the schema spells them, of the sections that some paragraph with text   *)
(* matches by style and text (a paragraph counting for the first section   *)
(* it matches), each key once; and the dispatcher was invoked once for     *)
(* each matching paragraph and for no other, in the order of the           *)
(* document.                                                               *)
C13_KeysAreMatchedSections ==
    pc = "done" =>
        /\ \A N \in SchemaNames \cup Keys(result) :
              HasKey(result, N) <=>
                  \E p \in MatchingPositions : SectionAt(p).title.name = N
        /\ \A i, j \in 1..Len(result) : result[i].name = result[j].name => i = j
        /\ {events[k].pos : k \in Dispatches} = MatchingPositions
        /\ \A k, m \in Dispatches : k < m => events[k].pos < events[m].pos

\* the parse is over; two headings were dispatched, one of them written in
\* another case and padding than the name it is stored under
C13_Witness ==
    /\ pc = "done"
    /\ Cardinality(MatchingPositions) = 2
    /\ Len(result) = 2
    /\ \E p \in MatchingPositions :
          /\ SectionAt(p).title.name # TextAt(p)
          /\ Trim(SectionAt(p).title.name) # SectionAt(p).title.name
          /\ ToLowerCase(TextAt(p)) # TextAt(p)

-----------------------------------------------------------------------------
\* the last step at which the dispatcher was invoked for the section named N
LastDispatchOf(N) ==
    Greatest({k \in Dispatches : SectionAt(events[k].pos).title.name = N})

\* the steps after step k, and before any later dispatch, that made a root
\* node of a tree
RootNodesMadeAfter(k) ==
    {m \in (k + 1)..Len(events) :
        /\ events[m].act = "TreeNodeCreate"
        /\ events[m].depth = 1
        /\ \A d \in Dispatches : ~(k < d /\ d < m)}

(* C14: last write wins.  When the parse is over, the value under each     *)
(* key is the content that follows the last heading of that section, and   *)
(* holds nothing of what follows an earlier heading of it: for a text      *)
(* block the texts after the last heading, for a list the lines after it,  *)
(* for a tree the root nodes made after it, one per root heading met, in   *)
(* order.                                                                  *)
C14_LastWriteWins ==
    pc = "done" =>
        \A N \in Keys(result) :
            LET k == LastDispatchOf(N)
                h == events[k].pos
                content == SectionAt(h).content
                F == FirstFrom(h + 1, EndsFlatAt)
                v == ValueOf(result, N)
                made == RootNodesMadeAfter(k)
            IN  IF content.kind = "list"
                THEN v = Arr(ListedLines(h + 1, F, content))
                ELSE IF content.kind = "tree" /\ ~content.hasNode
                THEN v = Arr(<<>>)
                ELSE IF content.kind = "tree"
                THEN /\ v.kind = "array"
                     /\ Len(v.items) = Cardinality(made)
                     /\ \A i \in 1..Len(v.items) :
                           v.items[i].title = Str(TextAt(events[Kth(made, i)].pos))
                ELSE v = Str(SpacedTexts(h + 1, F))

\* the content that follows the heading at h, as far as the flat strategies
\* read it
FlatTextsAfter(h) == SpacedTexts(h + 1, FirstFrom(h + 1, EndsFlatAt))

\* the parse is over; a section had two headings, each followed by text of
\* its own, and a tree section had two headings, the first followed by a
\* root heading and the last by none
C14_Witness ==
    /\ pc = "done"
    /\ \/ \E p, q \in MatchingPositions :
             /\ p < q
             /\ SectionAt(p) = SectionAt(q)
             /\ SectionAt(p).content.kind # "tree"
             /\ FlatTextsAfter(p) # <<>>
             /\ FlatTextsAfter(q) # <<>>
             /\ FlatTextsAfter(p) # FlatTextsAfter(q)
       \/ \E p, q \in MatchingPositions :
             /\ p < q
             /\ SectionAt(p) = SectionAt(q)
             /\ SectionAt(p).content.kind = "tree"
             /\ SectionAt(p).content.hasNode
             /\ \E m \in 1..Len(events) :
                   events[m].act = "TreeNodeCreate" /\ events[m].pos < q
             /\ ValueOf(result, SectionAt(p).title.name) = Arr(<<>>)

-----------------------------------------------------------------------------
\* the call in progress has ended, by return or by throw
CallOver == pc \in {"done", "error"}

-----------------------------------------------------------------------------
\* the number of levels of the tree schema that starts at nodeSchema
RECURSIVE Levels(_)
Levels(nodeSchema) ==
    IF HasChildNode(nodeSchema) THEN 1 + Levels(nodeSchema.content.node) ELSE 1

\* the nesting depth of v: 0 for what is no node
RECURSIVE Depth(_)
Depth(v) ==
    IF v.kind # "node" THEN 0
    ELSE LET below == {Depth(v.content[c]) : c \in 1..Len(v.content)}
         IN  1 + (IF below = {} THEN 0 ELSE Greatest(below))

\* v is a node of the level nodeSchema: a title and a content array, of
\* nodes of the next level where the level's content is a tree, of strings
\* elsewhere
RECURSIVE IsNodeOfLevel(_, _)
IsNodeOfLevel(v, nodeSchema) ==
    /\ v.kind = "node"
    /\ DOMAIN v = {"kind", "title", "content"}
    /\ v.title.kind \in {"string", "array", "keyed", "fields"}
    /\ DOMAIN v.content = 1..Len(v.content)
    /\ IF nodeSchema.content.kind = "tree"
       THEN \A c \in 1..Len(v.content) :
               /\ v.content[c].kind = "node"
               /\ HasChildNode(nodeSchema)
               /\ IsNodeOfLevel(v.content[c], nodeSchema.content.node)
       ELSE \A c \in 1..Len(v.content) : v.content[c].kind = "string"

\* the keys of the mapping whose section has a tree with its node
TreeKeys ==
    {N \in Keys(result) :
        /\ FindSection(N) # 0
        /\ HasChildNode(parseSchema.sections[FindSection(N)])}

(* C16: node shape.  Every node in a stored tree, and every node an open   *)
(* activation holds, is a title and a content array; under a level whose   *)
(* content is a tree the array holds nodes of the next level only, under   *)
(* any other level strings only; no stored tree is deeper than its schema  *)
(* has levels.                                                             *)
C16_NodeShape ==
    /\ \A N \in TreeKeys :
          LET root == parseSchema.sections[FindSection(N)].content.node
              v == ValueOf(result, N)
          IN  /\ v.kind = "array"
              /\ \A i \in 1..Len(v.items) :
                    /\ IsNodeOfLevel(v.items[i], root)
                    /\ Depth(v.items[i]) <= Levels(root)
    /\ \A f \in 1..Len(frames) :
          \A n \in 1..Len(frames[f].result) :
              /\ IsNodeOfLevel(frames[f].result[n], frames[f].nodeSchema)
              /\ Depth(frames[f].result[n]) <= Levels(frames[f].nodeSchema)

\* a stored tree as deep as its schema of three levels, with a string under
\* a node of the last level, made from a document that also had an ordinary
\* line under a node of a tree level
C16_Witness ==
    /\ pc = "done"
    /\ \E N \in TreeKeys :
          LET root == parseSchema.sections[FindSection(N)].content.node
              v == ValueOf(result, N)
          IN  /\ Levels(root) = 3
              /\ \E i \in 1..Len(v.items) :
                    /\ Depth(v.items[i]) = 3
                    /\ \E a \in 1..Len(v.items[i].content) :
                          \E b \in 1..Len(v.items[i].content[a].content) :
                              Len(v.items[i].content[a].content[b].content) > 0
    /\ \E k \in 1..Len(events) :
          /\ events[k].act = "TreeNodeDiscard"
          /\ IsOrdinaryLineAt(events[k].pos)

-----------------------------------------------------------------------------
\* obtaining the document fails: the client cannot be made, the call
\* rejects, or it resolves without data
ObtainingFails ==
    \/ apiOutcome.kind \in {"clientThrows", "rejects"}
    \/ apiOutcome.kind = "resolves" /\ ~apiOutcome.hasData

\* the number a sequence of decimal digits writes
RECURSIVE DigitsValue(_)
DigitsValue(t) ==
    IF t = <<>> THEN 0
    ELSE 10 * DigitsValue(SubSeq(t, 1, Len(t) - 1))
            + (CHOOSE d \in 0..9 :
                  <<"0", "1", "2", "3", "4", "5", "6", "7", "8", "9">>[d + 1] = t[Len(t)])

\* t is the message of the failure: the message of an Error, the string
\* form of any other value
IsMessageOf(t, outcome) ==
    IF outcome.kind = "clientThrows" THEN t = ClientInitMessage
    ELSE IF outcome.kind = "resolves" THEN t = EmptyResponseMessage
    ELSE LET e == outcome.reason
         IN  CASE e.kind = "error" -> t = e.message
               [] e.kind = "string" -> t = e.str
               [] e.kind = "number" ->
                     /\ Len(t) >= 1
                     /\ \A i \in 1..Len(t) :
                           t[i] \in {"0", "1", "2", "3", "4", "5", "6", "7", "8", "9"}
                     /\ Len(t) > 1 => t[1] # "0"
                     /\ DigitsValue(t) = e.n
               [] e.kind = "null" -> t = <<"n", "u", "l", "l">>
               [] e.kind = "undefined" ->
                     t = <<"u", "n", "d", "e", "f", "i", "n", "e", "d">>
               [] e.kind = "object" ->
                     t = <<"[", "o", "b", "j", "e", "c", "t", " ",
                           "O", "b", "j", "e", "c", "t", "]">>

\* the fetched document has no paragraph: no body, no content, or elements
\* that are no paragraphs
FetchedWithoutParagraph ==
    /\ apiOutcome.kind = "resolves"
    /\ apiOutcome.hasData
    /\ \/ ~apiOutcome.data.hasBody
       \/ ~apiOutcome.data.hasContent
       \/ \A i \in 1..Len(apiOutcome.data.content) :
             ~apiOutcome.data.content[i].hasParagraph

(* C17: getParsedDocument on failure.  When obtaining the document fails   *)
(* the promise rejects with one Error whose message is the fixed prefix    *)
(* followed by the message of the failure (the string form of a value      *)
(* that is no Error), and no mapping was built; when the document comes,   *)
(* the promise resolves with the mapping of the parse, which is empty for  *)
(* a document without body or without paragraph elements; a settled        *)
(* promise stays as it is.                                                 *)
C17_FailureIsOneWrappedError ==
    /\ [](callPc = "settled" =>
            IF ObtainingFails
            THEN /\ settled.kind = "rejected"
                 /\ settled.reason.kind = "error"
                 /\ LET m == settled.reason.message
                        n == Len(FailurePrefix)
                    IN  /\ Len(m) >= n
                        /\ SubSeq(m, 1, n) = FailurePrefix
                        /\ IsMessageOf(SubSeq(m, n + 1, Len(m)), apiOutcome)
                 /\ result = <<>>
                 /\ events = <<>>
            ELSE /\ settled = Resolved(result)
                 /\ pc = "done"
                 /\ FetchedWithoutParagraph => settled.value = <<>>)
    /\ [](callPc # "settled" => settled = Pending)
    /\ [][callPc = "settled" => settled' = settled]_vars

\* the call rejected with the number 404, which is no Error
C17_Witness ==
    /\ callPc = "settled"
    /\ apiOutcome.kind = "rejects"
    /\ apiOutcome.reason = [kind |-> "number", n |-> 404]
    /\ settled.kind = "rejected"

-----------------------------------------------------------------------------
(* C18: the cursor's position.  It is always between 0 and the number of   *)
(* paragraphs and no step lowers it; getNextParagraph adds one when the    *)
(* cursor is not at the end and changes nothing at the end, returning no   *)
(* paragraph there; every query leaves it as it is; getNextParagraph onto  *)
(* a paragraph without text moves onto it and returns no paragraph, and    *)
(* the cursor is then not at the end.                                      *)
C18_CursorPosition ==
    /\ [](0 <= index /\ index <= Len(paragraphList))
    /\ [][index' >= index]_vars
    /\ [](\A k \in 1..Len(calls) :
            LET c == calls[k]
                n == Len(paragraphList)
            IN  IF c.op = "getNextParagraph"
                THEN /\ c.from < n => c.to = c.from + 1
                     /\ c.from >= n => c.to = c.from /\ c.returned.paragraph.isNull
                     /\ (c.from < n /\ c.to < n /\ IsEmptyAt(c.to)) =>
                           c.returned.paragraph.isNull
                     /\ (c.from < n /\ c.to < n /\ ~IsEmptyAt(c.to)) =>
                           /\ ~c.returned.paragraph.isNull
                           /\ c.returned.paragraph.text = TextAt(c.to)
                ELSE c.to = c.from)
    /\ [](\A k \in 1..Len(calls) :
            Len(calls) = k \/ calls[k + 1].from = calls[k].to)
    /\ [](\A k \in 1..(Len(calls) - 1) :
            (/\ calls[k].op = "getNextParagraph"
             /\ calls[k].from < calls[k].to
             /\ calls[k].to < Len(paragraphList)
             /\ calls[k + 1].op = "isEndOfDocument") =>
                ~calls[k + 1].returned.boolean)

\* the cursor moved onto a paragraph without text and was then asked
\* whether it is at the end; it moved on to the end and was moved twice more
C18_Witness ==
    /\ pc = "cursor"
    /\ Len(calls) = 4
    /\ Len(paragraphList) = 2
    /\ calls[1].op = "getNextParagraph"
    /\ IsEmptyAt(1)
    /\ calls[1].returned.paragraph.isNull
    /\ calls[2].op = "getNextParagraph"
    /\ calls[3].op = "getNextParagraph"
    /\ calls[4].op = "getNextParagraph"
    /\ index = 2

-----------------------------------------------------------------------------
\* the paragraph at position i carries no text: it has no elements, or
\* nothing but whitespace in them
NoTextAt(i) ==
    \A e \in 1..Len(paragraphList[i + 1].elements) :
        \A c \in 1..Len(paragraphList[i + 1].elements[e]) :
            IsWhitespace(paragraphList[i + 1].elements[e][c])

(* C19: paragraphs without text.  Whatever its style tag, such a paragraph *)
(* is no heading and no section boundary, and the step taken with the      *)
(* cursor on it moves the cursor by one and changes nothing else: the      *)
(* loop that runs goes on running, no node, item or text is added, no      *)
(* value is stored.                                                        *)
C19_EmptyParagraphIsSteppedOver ==
    /\ [](\A i \in 0..(Len(paragraphList) - 1) :
            NoTextAt(i) =>
                /\ getCurrentParagraph(i).isNull
                /\ ~isAtParagraphHeading(i)
                /\ ~isAtNewSection(i)
                /\ getCurrentSectionTitle(i) = NoTitle)
    /\ [][(index < Len(paragraphList) /\ NoTextAt(index)) =>
            /\ index' = index + 1
            /\ UNCHANGED <<pc, result, section, sectionTitle, textPartList,
                           listResult, frames>>]_vars

\* the parse is over; a list took an item, stepped over a paragraph without
\* text that is tagged as a heading, and took another item
C19_Witness ==
    /\ pc = "done"
    /\ \E j, k, m \in 1..Len(events) :
          /\ j < k /\ k < m
          /\ events[j].act = "ListAppend"
          /\ events[k].act = "ListSkipEmpty"
          /\ events[m].act = "ListAppend"
          /\ NoTextAt(events[k].pos)
          /\ paragraphList[events[k].pos + 1].hasStyle
          /\ paragraphList[events[k].pos + 1].namedStyleType = "HEADING_1"

-----------------------------------------------------------------------------
\* the step moves the cursor by one
StepAdvances == index' = index + 1

\* the step ends a loop: an activation of parseTreeNode, a strategy, or the
\* driver
StepReturns ==
    \/ Len(frames') < Len(frames)
    \/ pc # "driver" /\ pc' = "driver"
    \/ pc' \in {"done", "error"}

\* the step opens an activation of parseTreeNode
StepEnters == Len(frames') = Len(frames) + 1 /\ index' = index

\* the last step opened an activation of parseTreeNode
JustEntered ==
    events # <<>> /\ LastEvent.act \in {"TreeSectionEnter", "TreeNodeStartChild"}

\* the levels of the deepest tree of the schema
TreeLevels ==
    Greatest({0} \cup {Levels(parseSchema.sections[i].content.node) :
                          i \in {j \in 1..Len(parseSchema.sections) :
                                    HasChildNode(parseSchema.sections[j])}})

\* what one paragraph ahead weighs in the measure: more than any rank
RankWeight == 4 + TreeLevels

\* what can still happen without the cursor moving: the open activations
\* return one by one, the strategy returns, the driver returns; right after
\* an activation is opened, nothing
Rank ==
    IF JustEntered THEN 0
    ELSE 1 + Len(frames)
           + (IF pc \in {"done", "error"} THEN 0 ELSE IF pc = "driver" THEN 1 ELSE 2)

\* the measure of what is left of the parse
Variant == (Len(paragraphList) - index) * RankWeight + Rank

(* C20: termination.  Every parse ends.  Every step moves the cursor by    *)
(* one, ends a loop, or opens a tree level; the step after one that opens  *)
(* a tree level makes a node of the paragraph the cursor is on and moves   *)
(* the cursor past it; so a measure of what is left, the paragraphs ahead  *)
(* first and the loops to return from second, goes down at every step and  *)
(* never below zero.                                                       *)
C20_ParseTerminates ==
    /\ <>(pc \in {"done", "error"})
    /\ [](Variant >= 0 /\ Rank < RankWeight)
    /\ [][Variant' < Variant]_vars
    /\ [][StepAdvances \/ StepReturns \/ StepEnters]_vars
    /\ [][JustEntered =>
            /\ LastEvent.pos = index
            /\ Len(events') = Len(events) + 1
            /\ events'[Len(events')].act = "TreeNodeCreate"
            /\ StepAdvances]_vars

\* the parse of a tree of three levels is over: levels were opened three
\* times under the root level, once from the second level
C20_Witness ==
    /\ pc = "done"
    /\ index = Len(paragraphList)
    /\ Cardinality({k \in 1..Len(events) : events[k].act = "TreeNodeStartChild"}) = 3
    /\ \E k \in 1..Len(events) : events[k].act = "TreeNodeStartChild" /\ events[k].depth = 2

-----------------------------------------------------------------------------
\* the step returns from a content strategy to the driver
StrategyReturns ==
    pc \in {"textBlock", "list", "treeSection", "treeNode"} /\ pc' = "driver"

\* the steps that take a paragraph into a value
ConsumingActs ==
    {"TextBlockAppend", "ListAppend", "TreeNodeCreate", "TreeNodeAppendDetail"}

\* the steps of the driver
DriverActs == {"DriverReturn", "DriverAdvance", "DriverEnterSection"}

(* C21: a strategy stops before its boundary.  When the text block, list   *)
(* or tree strategy returns to the driver the cursor stays where it is: at *)
(* the end of the document or on a paragraph with text that is a section   *)
(* boundary or a recognized heading; a flat strategy returns at the first  *)
(* such paragraph after its heading, a tree no later than the first        *)
(* heading outside its styles, with every root node it made in the value   *)
(* it returns; no step of the strategy took that paragraph into a value;   *)
(* and the next step is the driver's, on that paragraph.                   *)
C21_StopsBeforeBoundary ==
    /\ [][StrategyReturns =>
            /\ index' = index
            /\ index = Len(paragraphList) \/ EndsFlatAt(index)
            /\ \A k \in (Greatest(Dispatches) + 1)..Len(events) :
                  events[k].pos = index => events[k].act \notin ConsumingActs
            /\ IF pc \in {"textBlock", "list"}
               THEN index = FirstFrom(SectionHeadingPos + 1, EndsFlatAt)
               ELSE /\ index <= FirstFrom(SectionHeadingPos + 1, EndsTreeAt)
                    /\ LET v == ValueOf(result', sectionTitle)
                       IN  /\ v.kind = "array"
                           /\ Len(v.items) =
                                 Cardinality(RootNodesMadeAfter(Greatest(Dispatches)))]_vars
    /\ [][(/\ pc = "driver"
           /\ events # <<>>
           /\ LastEvent.act \notin DriverActs) =>
            /\ LastEvent.pos = index
            /\ events'[Len(events')].pos = index
            /\ events'[Len(events')].act \in DriverActs]_vars

\* the parse is over; a tree that had two levels open returned at a
\* heading outside its styles, which is not the last paragraph, with the
\* node made before it, and the driver went on from that heading
C21_Witness ==
    /\ pc = "done"
    /\ \E k \in 2..(Len(events) - 1) :
          /\ events[k].act = "TreeNodeReturn"
          /\ events[k].depth = 1
          /\ events[k - 1].act = "TreeNodeReturn"
          /\ events[k - 1].depth = 2
          /\ events[k].pos < Len(paragraphList) - 1
          /\ paragraphList[events[k].pos + 1].namedStyleType = "HEADING_5"
          /\ events[k + 1].act = "DriverAdvance"
          /\ Len(result) = 1
          /\ Len(result[1].value.items) = 1
          /\ Len(result[1].value.items[1].content) = 1

-----------------------------------------------------------------------------
\* a level of a tree is open on a paragraph that is the title of a section
AtSectionInTree ==
    /\ pc = "treeNode"
    /\ index < Len(paragraphList)
    /\ SectionsMatchingAt(index) # {}

(* C22: inside a tree a section boundary goes before every rule of the     *)
(* tree, at every depth.  While a level is open on a paragraph that is the *)
(* title of a section of the schema, whatever its style, the step closes   *)
(* the innermost level without moving the cursor: its nodes go into the    *)
(* node of the level above, or, from the outermost level, into the value   *)
(* stored for the tree; the driver's next step then enters the section of  *)
(* that title at that paragraph.                                           *)
C22_SectionBoundaryBeatsTreeRules ==
    /\ [][AtSectionInTree =>
            /\ index' = index
            /\ events'[Len(events')].act = "TreeNodeReturn"
            /\ IF Len(frames) = 1
               THEN /\ pc' = "driver"
                    /\ frames' = <<>>
                    /\ HasKey(result', sectionTitle)
                    /\ ValueOf(result', sectionTitle) = Arr(frames[1].result)
               ELSE /\ pc' = "treeNode"
                    /\ Len(frames') = Len(frames) - 1
                    /\ AttachedToLast(frames[2], frames[1].result, frames'[1])
                    /\ Tail(frames') = Tail(Tail(frames))
                    /\ result' = result]_vars
    /\ [][(/\ pc = "driver"
           /\ events # <<>>
           /\ LastEvent.act = "TreeNodeReturn"
           /\ index < Len(paragraphList)
           /\ SectionsMatchingAt(index) # {}) =>
            /\ events'[Len(events')].act = "DriverEnterSection"
            /\ events'[Len(events')].pos = index
            /\ index' = index + 1
            /\ \E k \in SectionsMatchingAt(index) :
                  LET sec == parseSchema.sections[k]
                  IN  IF sec.content.kind = "tree" /\ ~sec.content.hasNode
                      THEN /\ pc' = "driver"
                           /\ HasKey(result', sec.title.name)
                           /\ ValueOf(result', sec.title.name) = Arr(<<>>)
                      ELSE /\ pc' \in {"textBlock", "list", "treeSection"}
                           /\ section' = sec
                           /\ sectionTitle' = sec.title.name]_vars

\* the parse is over; a section title in the style of the tree's first
\* level was met with two levels open, both closed on it, the driver
\* entered its section, and the tree kept its node with the nested one
C22_Witness ==
    /\ pc = "done"
    /\ Len(result) = 2
    /\ \E k \in 2..(Len(events) - 1) :
          /\ events[k - 1].act = "TreeNodeReturn"
          /\ events[k - 1].depth = 2
          /\ events[k].act = "TreeNodeReturn"
          /\ events[k].depth = 1
          /\ events[k + 1].act = "DriverEnterSection"
          /\ events[k - 1].pos = events[k].pos
          /\ events[k + 1].pos = events[k].pos
          /\ \E t \in 1..Len(parseSchema.sections) :
                LET content == parseSchema.sections[t].content
                IN  /\ content.kind = "tree"
                    /\ content.hasNode
                    /\ paragraphList[events[k].pos + 1].namedStyleType =
                          content.node.title.namedStyleType
    /\ \E e \in 1..2 :
          /\ result[e].value.kind = "array"
          /\ Len(result[e].value.items) = 1
          /\ Len(result[e].value.items[1].content) = 1
          /\ Depth(result[e].value.items[1]) >= 2

-----------------------------------------------------------------------------
RECURSIVE LevelNode(_, _)
\* the schema of level L of the tree whose first level is nodeSchema
LevelNode(nodeSchema, L) ==
    IF L = 1 THEN nodeSchema ELSE LevelNode(nodeSchema.content.node, L - 1)

\* the levels of the tree of the section being parsed, and their title styles
SectionLevels == Levels(section.content.node)

SchemaLevelStyle(L) == LevelNode(section.content.node, L).title.namedStyleType

\* the tree being parsed declares a title style at every level, and no two
\* levels declare the same
OneStylePerLevel ==
    /\ \A L \in 1..SectionLevels : SchemaLevelStyle(L) # Undefined
    /\ \A L1, L2 \in 1..SectionLevels :
          L1 # L2 => SchemaLevelStyle(L1) # SchemaLevelStyle(L2)

\* a level is open on a heading with text that starts no section, in a
\* style of the tree that is not the title style of the open level, of its
\* direct child or of an enclosing level
InsideTreeUnmatched ==
    /\ pc = "treeNode"
    /\ index < Len(paragraphList)
    /\ ~IsEmptyAt(index)
    /\ SectionsMatchingAt(index) = {}
    /\ IsRecognizedHeadingAt(index)
    /\ LET style == paragraphList[index + 1].namedStyleType
       IN  /\ style \in {SchemaLevelStyle(L) : L \in 1..SectionLevels}
           /\ \A k \in 1..Len(frames) : style # LevelStyle(k)
           /\ HasChildNode(frames[1].nodeSchema) =>
                 style # frames[1].nodeSchema.content.node.title.namedStyleType

\* the heading under the cursor is in the title style of a level more than
\* one below the innermost open level
AtSkippedLevelHeading ==
    /\ pc = "treeNode"
    /\ index < Len(paragraphList)
    /\ ~IsEmptyAt(index)
    /\ SectionsMatchingAt(index) = {}
    /\ IsRecognizedHeadingAt(index)
    /\ \E L \in (Len(frames) + 2)..SectionLevels :
          paragraphList[index + 1].namedStyleType = SchemaLevelStyle(L)

\* C23 as stated: with one distinct style per level no document brings a
\* level to a heading of the tree's styles that is neither its own, its
\* child's nor an ancestor's
C23_Original ==
    (pc = "treeNode" /\ OneStylePerLevel) => ~InsideTreeUnmatched

(* C23: the case of a heading whose style is in the tree's style set but   *)
(* is not the title style of the open level, of its direct child or of an  *)
(* ancestor.  For a tree schema with one distinct style per level it       *)
(* arises exactly at a heading in the style of a level more than one below *)
(* the open level, a level having been skipped; the level then returns     *)
(* without consuming the heading, as at a heading outside the tree.        *)
C23_UnmatchedOnlyAtSkippedLevel ==
    /\ [](pc = "treeNode" /\ OneStylePerLevel =>
             (InsideTreeUnmatched <=> AtSkippedLevelHeading))
    /\ [][(InsideTreeUnmatched /\ OneStylePerLevel) =>
            /\ index' = index
            /\ events'[Len(events')].act = "TreeNodeReturn"
            /\ IF Len(frames) = 1
               THEN /\ pc' = "driver"
                    /\ ValueOf(result', sectionTitle) = Arr(frames[1].result)
               ELSE Len(frames') = Len(frames) - 1]_vars

\* the parse is over; under a node of the first level of a tree of three
\* levels came a heading of the third, which ended the tree: the driver
\* went on from it and the value has that one node, without content,
\* although a heading of the first level follows
C23_Witness ==
    /\ pc = "done"
    /\ TreeLevels = 3
    /\ Len(result) = 1
    /\ result[1].value.kind = "array"
    /\ Len(result[1].value.items) = 1
    /\ result[1].value.items[1].content = <<>>
    /\ \E k \in 2..(Len(events) - 1) :
          /\ events[k - 1].act = "TreeNodeCreate"
          /\ events[k - 1].depth = 1
          /\ events[k].act = "TreeNodeReturn"
          /\ events[k].depth = 1
          /\ events[k + 1].act = "DriverAdvance"
          /\ events[k].pos + 1 < Len(paragraphList)
          /\ paragraphList[events[k].pos + 1].namedStyleType = "HEADING_4"
          /\ paragraphList[events[k].pos + 2].namedStyleType = "HEADING_2"

-----------------------------------------------------------------------------
\* the steps of a parseTreeNode activation
TreeNodeActs ==
    {"TreeNodeSkipEmpty", "TreeNodeReturn", "TreeNodeCreate",
     "TreeNodeStartChild", "TreeNodeStartChildSkip", "TreeNodeDiscard",
     "TreeNodeAppendDetail"}

\* the steps in which an activation with d levels open, or any activation,
\* examined the paragraph at p
ExaminationsAtDepth(p, d) ==
    {k \in 1..Len(events) :
        /\ events[k].act \in TreeNodeActs
        /\ events[k].pos = p
        /\ events[k].depth = d}

Examinations(p) ==
    {k \in 1..Len(events) : events[k].act \in TreeNodeActs /\ events[k].pos = p}

(* C24: one pass with bounded re-examination.  In a parse every paragraph  *)
(* is examined by the tree's level activations at most once at each depth  *)
(* of open levels, so at most as many times as the tree schema has levels, *)
(* and the number of activations open at once never exceeds the number of  *)
(* levels of the schema of the tree being parsed.                          *)
C24_BoundedReexamination ==
    /\ Len(frames) <= TreeLevels
    /\ pc = "treeNode" => Len(frames) <= SectionLevels
    /\ \A p \in 0..Len(paragraphList) :
          /\ Cardinality(Examinations(p)) <= TreeLevels
          /\ \A d \in 1..TreeLevels : Cardinality(ExaminationsAtDepth(p, d)) <= 1
          /\ \A k \in Examinations(p) : events[k].depth \in 1..TreeLevels

\* the parse is over; one paragraph of a tree of three levels was examined
\* three times, once with three, once with two and once with one level open
C24_Witness ==
    /\ pc = "done"
    /\ TreeLevels = 3
    /\ \E p \in 0..(Len(paragraphList) - 1) :
          /\ Cardinality(Examinations(p)) = 3
          /\ \A d \in 1..3 : Cardinality(ExaminationsAtDepth(p, d)) = 1

-----------------------------------------------------------------------------
\* no paragraph up to p is the title of a section
OutsideBefore(p) == \A j \in 0..p : ~IsSectionBoundaryAt(j)

\* a strategy returned to the driver on the paragraph at h
ReturnedAt(h) ==
    \E k \in 1..(Len(events) - 1) :
        /\ events[k].pos = h
        /\ events[k].act \notin DriverActs
        /\ events[k + 1].act \in DriverActs

\* p is, or follows, a heading that is the title of no section and on which
\* a strategy returned, with no title of a section from that heading to p
OutsideAfterStop(p) ==
    \E h \in 0..p :
        /\ ReturnedAt(h)
        /\ ~IsEmptyAt(h)
        /\ IsRecognizedHeadingAt(h)
        /\ \A j \in h..p : ~IsSectionBoundaryAt(j)

\* the steps taken on the paragraph at p that did what act names
StepsOf(p, acts) ==
    {k \in 1..Len(events) : events[k].pos = p /\ events[k].act \in acts}

(* C25: paragraphs outside the range a section consumed contribute         *)
(* nothing.  A paragraph before the first title of a section, and a        *)
(* paragraph from a heading that is the title of no section, on which the  *)
(* running strategy returned, up to the next title of a section, is passed *)
(* by one step of the driver and by no step that takes a paragraph into a  *)
(* value or enters a section; that step of the driver leaves the stored    *)
(* values as they are, and every key stored is the name of a section whose *)
(* title the driver entered.                                               *)
C25_OutsideParagraphsContributeNothing ==
    /\ [](\A p \in 0..(index - 1) :
             (OutsideBefore(p) \/ OutsideAfterStop(p)) =>
                /\ StepsOf(p, ConsumingActs \cup {"DriverEnterSection"}) = {}
                /\ Cardinality(StepsOf(p, {"DriverAdvance"})) = 1)
    /\ [](Keys(result) \subseteq
             {SectionAt(events[k].pos).title.name : k \in Dispatches})
    /\ [][events'[Len(events')].act = "DriverAdvance" =>
            /\ result' = result
            /\ index' = index + 1]_vars

\* the parse is over; a line of text came before the first section, the
\* text block returned on a heading that is the title of no section, a line
\* of text followed it, and the one value stored holds neither
C25_Witness ==
    /\ pc = "done"
    /\ Len(result) = 1
    /\ result[1].value = Str(<<>>)
    /\ \E p, h, q \in 0..(Len(paragraphList) - 1) :
          /\ p < h /\ h < q
          /\ OutsideBefore(p) /\ ~IsEmptyAt(p)
          /\ IsSectionBoundaryAt(h - 1)
          /\ ReturnedAt(h) /\ IsRecognizedHeadingAt(h) /\ ~IsSectionBoundaryAt(h)
          /\ OutsideAfterStop(q) /\ ~IsEmptyAt(q) /\ ~IsRecognizedHeadingAt(q)

-----------------------------------------------------------------------------
(* parseDocument under a schema in which two sections carry the same name  *)
(* with different style tags, a list under HEADING_1 and a text block      *)
(* under HEADING_2, beside a section of a name of its own.                 *)

DuplicateSchema ==
    [sections |-> <<
        [title |-> PlainTitle(TxtNotes, "HEADING_1"),
         content |-> ListContent(<<>>, <<>>, <<>>, TRUE)],
        [title |-> PlainTitle(TxtNotes, "HEADING_2"), content |-> NoContent],
        [title |-> PlainTitle(TxtBio, "HEADING_1"), content |-> NoContent]
    >>]

DuplicatePool ==
    { Para(TxtNotes \o <<"\n">>, "HEADING_1"),
      Para(TxtBio \o <<"\n">>, "HEADING_1"),
      Para(TxtNotes \o <<"\n">>, "HEADING_2"),
      Para(<<"a", ",", " ", "b", "\n">>, "NORMAL_TEXT"),
      Unstyled(<<"c", "\n">>),
      Para(<<"\n">>, "NORMAL_TEXT"),
      Para(<<"x", "\n">>, "HEADING_3") }

DuplicateDocs == SeqsUpTo(DuplicatePool, MaxFlat)

InitDuplicate ==
    /\ parseSchema = DuplicateSchema
    /\ paragraphList \in DuplicateDocs
    /\ index = 0
    /\ pc = "driver"
    /\ result = <<>>
    /\ section = NoSection
    /\ sectionTitle = NoTitle
    /\ textPartList = <<>>
    /\ listResult = <<>>
    /\ frames = <<>>
    /\ events = <<>>
    /\ InitLineIdle
    /\ InitFirstRun
    /\ InitClientIdle

NextDuplicate ==
    \/ DriverReturn
    \/ DriverAdvance
    \/ DriverEnterSection
    \/ TextBlockSkipEmpty
    \/ TextBlockAppend
    \/ TextBlockReturn
    \/ ListSkipEmpty
    \/ ListAppend
    \/ ListReturn

SpecDuplicate == InitDuplicate /\ [][NextDuplicate]_vars

(* C26: the content after a matched heading is parsed with the content     *)
(* descriptor of the section whose title matched it.  While a strategy     *)
(* runs, the section it was given is the section of the schema whose style *)
(* tag and name are those of the heading the driver entered last, also     *)
(* when another section has the same name.                                 *)
C26_ParsedWithMatchedSection ==
    pc \in {"textBlock", "list"} =>
        /\ SectionsMatchingAt(SectionHeadingPos) # {}
        /\ section = SectionAt(SectionHeadingPos)

-----------------------------------------------------------------------------
(* parseDocument on a tree of two levels whose second level has list       *)
(* content, under every list descriptor of DetailContents, on lines that   *)
(* hold the delimiters.                                                    *)

DetailContents ==
    { ListContent(<<>>, <<>>, <<>>, FALSE),
      ListContent(<<",">>, <<>>, <<>>, TRUE),
      ListContent(<<>>, <<>>, <<":">>, FALSE),
      ListContent(<<>>, <<"x", "y">>, <<>>, FALSE) }

DetailSchema(content) ==
    [sections |-> <<
        [title |-> PlainTitle(TxtWork, "HEADING_1"),
         content |->
            TreeContent(MkNode(PlainTitle(<<>>, "HEADING_2"),
                TreeContent(MkNode(PlainTitle(<<>>, "HEADING_3"), content))))]
    >>]

DetailPool ==
    { Para(<<"a", "\n">>, "HEADING_2"),
      Para(<<"b", "\n">>, "HEADING_3"),
      Para(<<" ", "a", ",", "b", " ", "\n">>, "NORMAL_TEXT"),
      Unstyled(<<"k", ":", " ", "a", "\n">>),
      Para(<<"\n">>, "NORMAL_TEXT") }

\* the section's heading, at the start or after a line of text, and a body
DetailDocs ==
    {before \o <<TreeHeading>> \o body :
        before \in {<<>>, <<Unstyled(<<"k", ":", " ", "a", "\n">>)>>},
        body \in SeqsUpTo(DetailPool, MaxBody)}

InitTreeDetail ==
    /\ \E content \in DetailContents : parseSchema = DetailSchema(content)
    /\ paragraphList \in DetailDocs
    /\ index = 0
    /\ pc = "driver"
    /\ result = <<>>
    /\ section = NoSection
    /\ sectionTitle = NoTitle
    /\ textPartList = <<>>
    /\ listResult = <<>>
    /\ frames = <<>>
    /\ events = <<>>
    /\ InitLineIdle
    /\ InitFirstRun
    /\ InitClientIdle

NextTreeDetail ==
    \/ DriverReturn
    \/ DriverAdvance
    \/ DriverEnterSection
    \/ TreeSectionSkipEmpty
    \/ TreeSectionSkipOrphan
    \/ TreeSectionReturnEmpty
    \/ TreeSectionEnter
    \/ TreeNodeSkipEmpty
    \/ TreeNodeReturn
    \/ TreeNodeCreate
    \/ TreeNodeStartChild
    \/ TreeNodeDiscard
    \/ TreeNodeAppendDetail

SpecTreeDetail == InitTreeDetail /\ [][NextTreeDetail]_vars

\* the paragraphs after the heading at h and before the next heading of a
\* level of the tree that are lines of text
LinesUnder(h) ==
    LET next == FirstFrom(h + 1, IsRecognizedHeadingAt)
    IN  {p \in (h + 1)..(next - 1) : ~IsEmptyAt(p)}

\* the texts of the paragraphs at the positions ps, in their order, each
\* without the whitespace at its ends, as strings
RECURSIVE TrimmedLines(_)
TrimmedLines(ps) ==
    IF ps = {} THEN <<>>
    ELSE LET p == Least(ps)
         IN  <<Str(StripRight(StripLeft(TextAt(p))))>> \o TrimmedLines(ps \ {p})

\* the headings in the title style of the second level that came under a
\* node of the first, in their order
SecondLevelHeadings ==
    {h \in 2..(Len(paragraphList) - 1) :
        /\ ~IsEmptyAt(h)
        /\ paragraphList[h + 1].hasStyle
        /\ paragraphList[h + 1].namedStyleType = "HEADING_3"
        /\ \E r \in 1..(h - 1) :
              /\ ~IsEmptyAt(r)
              /\ paragraphList[r + 1].hasStyle
              /\ paragraphList[r + 1].namedStyleType = "HEADING_2"}

\* the nodes of the second level in the value v of the tree, in their order
RECURSIVE SecondLevelNodes(_)
SecondLevelNodes(items) ==
    IF items = <<>> THEN <<>>
    ELSE Head(items).content \o SecondLevelNodes(Tail(items))

-----------------------------------------------------------------------------
(* createNodeFromTitle on its own: every text of LineTexts under every     *)
(* title schema of TitleSchemas.                                           *)

TitleSchemas ==
    {MkTitle(<<>>, "HEADING_2", d, k, kd) :
        d \in LineDelimiters, k \in LineKeys, kd \in LineKeyDelimiters}

InitTitle ==
    /\ lineText \in LineTexts
    /\ lineSchema \in TitleSchemas
    /\ lineOut = Str(<<>>)
    /\ linePc = "title"
    /\ InitDocIdle

(* a call of createNodeFromTitle *)
CreateNodeFromTitle ==
    /\ linePc = "title"
    /\ lineOut' = createNodeFromTitle(lineText, lineSchema)
    /\ linePc' = "node"
    /\ UNCHANGED <<lineText, lineSchema, docVars, runVars, clientVars, calls>>

NextTitle == CreateNodeFromTitle

SpecTitle == InitTitle /\ [][NextTitle]_vars

\* the title schema declares no keyDelimiter, no keys and no delimiter
DeclaresNoLineOption ==
    /\ lineSchema.keyDelimiter = <<>>
    /\ lineSchema.keys = <<>>
    /\ lineSchema.delimiter = <<>>

\* s occurs in t, and not at its very start for the first time
OccursPastStart(s, t) ==
    /\ \E i \in 2..(Len(t) - Len(s) + 1) : SubSeq(t, i, i + Len(s) - 1) = s
    /\ SubSeq(t, 1, Len(s)) # s

(* C28: the title of a node.  It is the heading text as a string when the  *)
(* title schema declares no keyDelimiter, no keys and no delimiter.  When  *)
(* it declares one, it is what the line parser makes of the heading text   *)
(* under the title schema: a pair of key and value when the keyDelimiter   *)
(* occurs in the text past its start, the heading text unchanged when a    *)
(* keyDelimiter is declared and the pair parsing falls back, a record of   *)
(* the keys, or a list of strings.  The node's content is the empty array  *)
(* in every case.                                                          *)
C28_NodeTitle ==
    linePc = "node" =>
        /\ lineOut.kind = "node"
        /\ lineOut.content = <<>>
        /\ IF DeclaresNoLineOption
           THEN lineOut.title = Str(lineText)
           ELSE IF lineSchema.keyDelimiter # <<>>
           THEN IF OccursPastStart(lineSchema.keyDelimiter, lineText)
                THEN /\ lineOut.title.kind = "keyed"
                     /\ lineOut.title = parseStructuredText(lineText, lineSchema)
                ELSE lineOut.title = Str(lineText)
           ELSE IF lineSchema.keys # <<>>
           THEN /\ lineOut.title.kind = "fields"
                /\ lineOut.title = parseStructuredText(lineText, lineSchema)
           ELSE /\ lineOut.title.kind = "array"
                /\ \A i \in 1..Len(lineOut.title.items) :
                      lineOut.title.items[i].kind = "string"
                /\ lineOut.title = parseStructuredText(lineText, lineSchema)

\* a node was made of " a:b" under a title schema with the keyDelimiter
\* ":": its title is the pair of "a" and the list of "b"
C28_Witness ==
    /\ linePc = "node"
    /\ lineText = <<" ", "a", ":", "b">>
    /\ lineSchema = MkTitle(<<>>, "HEADING_2", <<>>, <<>>, <<":">>)
    /\ lineOut = TreeNode(Keyed(<<"a">>, <<<<"b">>>>), <<>>)

-----------------------------------------------------------------------------
(* parseDocument under a schema with missing and unrecognized pieces: a    *)
(* tree whose node has tree content without a node, a tree without a node, *)
(* a content of an unknown kind, a title without a style tag and a title   *)
(* without a name.                                                         *)

MalformedSchema ==
    [sections |-> <<
        [title |-> PlainTitle(TxtWork, "HEADING_1"),
         content |->
            TreeContent(MkNode(PlainTitle(<<>>, "HEADING_2"),
                MkContent("tree", <<>>, <<>>, <<>>, FALSE, FALSE, <<>>)))],
        [title |-> PlainTitle(TxtVoid, "HEADING_1"),
         content |-> MkContent("tree", <<>>, <<>>, <<>>, FALSE, FALSE, <<>>)],
        [title |-> PlainTitle(TxtMisc, "HEADING_1"),
         content |-> MkContent("table", <<>>, <<>>, <<>>, FALSE, FALSE, <<>>)],
        [title |-> PlainTitle(TxtNotes, Undefined), content |-> NoContent],
        [title |-> PlainTitle(<<>>, "HEADING_3"), content |-> NoContent]
    >>]

MalformedPool ==
    { Para(TxtWork \o <<"\n">>, "HEADING_1"),
      Para(TxtVoid \o <<"\n">>, "HEADING_1"),
      Para(TxtMisc \o <<"\n">>, "HEADING_1"),
      Unstyled(TxtNotes \o <<"\n">>),
      Para(<<"x", "\n">>, "HEADING_3"),
      Para(<<"a", "\n">>, "HEADING_2"),
      Para(<<"c", "\n">>, "NORMAL_TEXT"),
      Para(<<"\n">>, "NORMAL_TEXT") }

MalformedDocs == SeqsUpTo(MalformedPool, MaxDispatch)

InitMalformed ==
    /\ parseSchema = MalformedSchema
    /\ paragraphList \in MalformedDocs
    /\ index = 0
    /\ pc = "driver"
    /\ result = <<>>
    /\ section = NoSection
    /\ sectionTitle = NoTitle
    /\ textPartList = <<>>
    /\ listResult = <<>>
    /\ frames = <<>>
    /\ events = <<>>
    /\ InitLineIdle
    /\ InitFirstRun
    /\ InitClientIdle

NextMalformed ==
    \/ DriverReturn
    \/ DriverAdvance
    \/ DriverEnterSection
    \/ TextBlockSkipEmpty
    \/ TextBlockAppend
    \/ TextBlockReturn

SpecMalformed == InitMalformed /\ [][NextMalformed]_vars

(* C29: the parse raises nothing on malformed schema content.  Whatever    *)
(* pieces of the schema are missing or unrecognized, no parse reaches the  *)
(* state in which an error has left parseDocument.                         *)
C29_MalformedSchemaRaisesNothing == pc # "error"

-----------------------------------------------------------------------------
\* the step opens a parseTreeNode activation
OpensActivation == Len(frames') = Len(frames) + 1

(* C30: every activation of the level parser begins on its own title.      *)
(* The step that opens an activation leaves the cursor on a paragraph with *)
(* text, in the title style of the level opened, that is the title of no   *)
(* section; the first step of the activation makes a node, so no step is   *)
(* ever taken by an activation without an open node except the one that    *)
(* makes its first; an activation returns at least one node; and the       *)
(* branch that skips a child heading for want of an open node is never     *)
(* taken.                                                                  *)
C30_ActivationBeginsOnItsTitle ==
    /\ [][OpensActivation =>
            /\ index' = index
            /\ index < Len(paragraphList)
            /\ ~IsEmptyAt(index)
            /\ SectionsMatchingAt(index) = {}
            /\ paragraphList[index + 1].hasStyle
            /\ paragraphList[index + 1].namedStyleType =
                  frames'[1].nodeSchema.title.namedStyleType
            /\ frames'[1].result = <<>>
            /\ frames'[1].currentNode = 0]_vars
    /\ [][(pc = "treeNode" /\ frames[1].currentNode = 0) =>
            /\ events'[Len(events')].act = "TreeNodeCreate"
            /\ Len(frames'[1].result) = 1
            /\ frames'[1].currentNode = 1
            /\ index' = index + 1]_vars
    /\ [][events'[Len(events')].act = "TreeNodeReturn" =>
            /\ frames[1].result # <<>>
            /\ frames[1].currentNode = Len(frames[1].result)]_vars
    /\ [](\A k \in 1..Len(events) : events[k].act # "TreeNodeStartChildSkip")

\* the parse is over; activations were opened for the first, the second and
\* the third level of a tree, and the tree's value has a node of each
C30_Witness ==
    /\ pc = "done"
    /\ \E k1, k2, k3 \in 1..Len(events) :
          /\ events[k1].act = "TreeSectionEnter"
          /\ events[k2].act = "TreeNodeStartChild" /\ events[k2].depth = 1
          /\ events[k3].act = "TreeNodeStartChild" /\ events[k3].depth = 2
    /\ \E e \in 1..Len(result) :
          /\ result[e].value.kind = "array"
          /\ result[e].value.items # <<>>
          /\ Depth(result[e].value.items[1]) = 3

====
